---- MODULE Spec2Model ----
(***************************************************************************)
(* Verification model of the cars-indian site: the dealer index            *)
(* (src/lib/dealers.ts), the bounded worker pool of the batch scripts      *)
(* (mapWithConcurrency), the cars API client (src/lib/api.ts), the         *)
(* contact-form POST handler (src/pages/rest/contact_form.ts), the slug     *)
(* functions (slugify, generateCarSlug), the ContactForm component and the *)
(* batch scripts: image migration, city covers, normalization of the city  *)
(* files, search indexing and the cars migration to D1.                    *)
(*                                                                         *)
(* Strings are sequences of characters; a character is a one-token string. *)
(* "e_acute" stands for U+00E9 and "acute" for the combining mark U+0301.  *)
(***************************************************************************)
EXTENDS Integers, Sequences, FiniteSets, TLC

\* ------------------------------------------------------------------------
\* State
\* ------------------------------------------------------------------------
\* the dealer index (dealers.ts)
VARIABLES
  dataModules,      \* dealers.ts: the eagerly imported city files, in key order
  _allDealers,      \* dealers.ts: [defined, value] cache of getAllDealers
  _cities,          \* dealers.ts: [defined, value] cache of getCities
  _dealersByCity,   \* dealers.ts: [defined, value] cache, a Map as entry list
  ret               \* the last call on the dealer index and what it returned

dealerVars == <<dataModules, _allDealers, _cities, _dealersByCity, ret>>

\* mapWithConcurrency and the batch that uses it
VARIABLES
  items,          \* the array handed to mapWithConcurrency (toProcess)
  concurrency,    \* the concurrency argument
  catching,       \* TRUE: the worker is the scripts' callback with try/catch
  poolpc,         \* "init" before the call, "running" after it
  i,              \* the shared next index
  results,        \* the results array, Empty where nothing was stored
  wst,            \* per pool worker: [st, idx]
  allState,       \* the promise of the helper: "pending", "resolved", "rejected"
  handed,         \* per index: how many worker calls were started for it
  returnedVal,    \* per index: what the worker call returned
  inFlight,       \* number of worker calls started and not settled
  ok,             \* the success counter of the batch
  fail,           \* the failure counter of the batch
  counted         \* per index: how many times a counter was bumped for it

poolVars ==
  <<items, concurrency, catching, poolpc, i, results, wst, allState, handed,
    returnedVal, inFlight, ok, fail, counted>>

\* the cars API client
VARIABLES
  remote,     \* what the remote side answers: [resps, imgs]
  apiCall,    \* the last client call: [fn, variant]
  apiRet      \* what its promise settled to (kind "threw": it rejected)

apiVars == <<remote, apiCall, apiRet>>

\* the contact-form POST handler
VARIABLES
  contact_form,   \* the rows of the contact_form table
  inserts,        \* how many INSERT statements were executed, failed or not
  handled,        \* how many requests were answered
  request,        \* the last request: [body, db]
  response        \* the answer to it: [status, error, message, data]

contactVars == <<contact_form, inserts, handled, request, response>>

\* the image-migration script (main and ensureUploaded of the R2 migration)
VARIABLES
  mig_files,       \* src/data/cities: file -> the imageUrl of each record
  mig_cacheFile,   \* scripts/image-url-map.json: source URL -> object key
  mig_bucket,      \* the object keys the bucket holds
  mig_content,     \* what each source URL serves (the bytes that are hashed)
  mig_concurrency, \* --concurrency
  mig_run,         \* [apply, dryRunFetch, n]: flags of the last run, runs so far
  mig_pc,          \* "idle" between runs, "pool" inside mapWithConcurrency
  mig_cache,       \* the in-memory cache object of the run
  mig_toProcess,   \* the URLs handed to mapWithConcurrency
  mig_i,           \* the shared next index of the pool
  mig_w,           \* per pool worker: [st, idx]
  mig_effects,     \* this run: [downloads, heads, cacheWrites, cityWrites]
  mig_puts,        \* this run: object key -> number of PUTs issued
  mig_found,       \* keys for which a HEAD of an --apply run succeeded
  mig_uploaded,    \* keys for which a PUT of an --apply run succeeded
  mig_rewritten    \* keys whose public URL an --apply run wrote into a file

migVars ==
  <<mig_files, mig_cacheFile, mig_bucket, mig_content, mig_concurrency,
    mig_run, mig_pc, mig_cache, mig_toProcess, mig_i, mig_w,
    mig_effects, mig_puts, mig_found, mig_uploaded, mig_rewritten>>

\* the city-cover script
VARIABLES
  cov_covers,      \* src/data/city-covers.json: slug -> value, Missing if none
  cov_cacheFile,   \* scripts/unsplash-cover-cache.json: slug -> url, "" if none
  cov_bucket,      \* the object keys the bucket holds
  cov_concurrency, \* --concurrency
  cov_run,         \* [apply, overwrite, n]: flags of the last run, runs so far
  cov_pc,          \* "idle" between runs, "pool" inside mapWithConcurrency
  cov_cache,       \* the in-memory cache object of the run
  cov_targets,     \* the slugs handed to mapWithConcurrency
  cov_i,           \* the shared next index of the pool
  cov_w,           \* per pool worker: [st, idx]
  cov_found,       \* keys for which a HEAD of an --apply run succeeded
  cov_uploaded,    \* keys for which a PUT of an --apply run succeeded
  cov_written      \* URLs that --apply runs assigned in city-covers.json

covVars ==
  <<cov_covers, cov_cacheFile, cov_bucket, cov_concurrency, cov_run, cov_pc,
    cov_cache, cov_targets, cov_i, cov_w, cov_found, cov_uploaded, cov_written>>

\* the normalization script and the directories it works on
VARIABLES
  nz_src,      \* src/data: file name -> content, NoFile where there is none
  nz_raw,      \* src/data/raw: NoDir, or file name -> content
  nz_cities,   \* src/data/cities: file name -> content
  nz_run       \* [n, inputDir, moved]: runs so far and what the last one did

nzVars == <<nz_src, nz_raw, nz_cities, nz_run>>

\* the search-indexing script and its database gsc_indexing.db
VARIABLES
  ix_db,          \* submitted_urls: url -> status, Missing where no row
  ix_pc,          \* "idle" between runs, "submitting" inside the batch loop
  ix_batches,     \* the batches the run has still to submit
  ix_published,   \* url -> number of publish calls made for it, all runs
  ix_republished, \* a publish call was made for a URL that had a row
  ix_runs,         \* runs so far
  ix_urlsToSubmit, \* the urlsToSubmit the last run took into its batch loop
  ix_successCount, \* successCount of the last run
  ix_errorCount,   \* errorCount of the last run
  ix_accepted      \* url -> publish calls of the last run that succeeded

ixVars ==
  <<ix_db, ix_pc, ix_batches, ix_published, ix_republished, ix_runs,
    ix_urlsToSubmit, ix_successCount, ix_errorCount, ix_accepted>>

\* the cars migration (images to the bucket, rows to D1)
VARIABLES
  cm_cars,        \* carsToProcess: [used_car_id, used_car_sku_id, pi]
  cm_concurrency, \* --concurrency
  cm_pc,          \* "init", "uploading", "inserting", "done"
  cm_urls,        \* urlsToUpload
  cm_cache,       \* the source URLs the cache maps to a public URL
  cm_i,           \* the shared next index of the pool
  cm_w,           \* per pool worker: [st, idx]
  cm_k,           \* the position in carsToProcess of the insert loop
  cm_q,           \* the D1 query in flight: "none", "car", "delete", "images"
  cm_used_cars,   \* the rows of used_cars: [used_car_id, used_car_sku_id]
  cm_car_images,  \* the rows of car_images
  cm_failed       \* a D1 query of the run has failed

cmVars ==
  <<cm_cars, cm_concurrency, cm_pc, cm_urls, cm_cache, cm_i, cm_w, cm_k, cm_q,
    cm_used_cars, cm_car_images, cm_failed>>

\* calls of the slug functions: slugify and generateCarSlug
VARIABLES
  sl_pc,        \* "idle", then "slug" or "car" after the call
  sl_input,     \* the argument of slugify
  sl_slug,      \* slugify(input)
  sl_again,     \* slugify(slugify(input))
  sl_cars,      \* the two cars handed to generateCarSlug
  sl_carSlugs   \* their slugs

slVars == <<sl_pc, sl_input, sl_slug, sl_again, sl_cars, sl_carSlugs>>

\* the ContactForm component and what it has in flight
VARIABLES
  cf_currentStep,  \* useState(1)
  cf_isSell,       \* useState(false)
  cf_formData,     \* useState({name: '', phone_number: '', ...})
  cf_message,      \* useState(null): [type, text]
  cf_isSubmitting, \* useState(false)
  cf_pending,      \* the await handleSubmit is suspended at, with its response
  cf_timers,       \* the pending setTimeout callbacks, oldest first, each
                   \* with the visit to step 2 its submission was made in
  cf_visit,        \* visits to step 2 so far
  cf_submits,      \* submissions so far
  cf_event         \* the last thing that happened: [kind, visit]

formVars ==
  <<cf_currentStep, cf_isSell, cf_formData, cf_message, cf_isSubmitting,
    cf_pending, cf_timers, cf_visit, cf_submits, cf_event>>

siteVars == <<dealerVars, poolVars, apiVars, contactVars>>

scriptVars == <<migVars, covVars, nzVars, ixVars, cmVars, slVars, formVars>>

vars == <<siteVars, scriptVars>>

\* what a step of one component leaves alone
notDealers == <<poolVars, apiVars, contactVars, scriptVars>>

notPool == <<dealerVars, apiVars, contactVars, scriptVars>>

notApi == <<dealerVars, poolVars, contactVars, scriptVars>>

notContact == <<dealerVars, poolVars, apiVars, scriptVars>>

notMig == <<siteVars, covVars, nzVars, ixVars, cmVars, slVars, formVars>>

notCov == <<siteVars, migVars, nzVars, ixVars, cmVars, slVars, formVars>>

notNz == <<siteVars, migVars, covVars, ixVars, cmVars, slVars, formVars>>

notIx == <<siteVars, migVars, covVars, nzVars, cmVars, slVars, formVars>>

notCm == <<siteVars, migVars, covVars, nzVars, ixVars, slVars, formVars>>

notSl == <<siteVars, migVars, covVars, nzVars, ixVars, cmVars, formVars>>

notForm == <<siteVars, migVars, covVars, nzVars, ixVars, cmVars, slVars>>

\* ------------------------------------------------------------------------
\* Characters and the JavaScript string built-ins the code uses
\* ------------------------------------------------------------------------
LowerSeq ==
  <<"a","b","c","d","e","f","g","h","i","j","k","l","m",
    "n","o","p","q","r","s","t","u","v","w","x","y","z">>

UpperSeq ==
  <<"A","B","C","D","E","F","G","H","I","J","K","L","M",
    "N","O","P","Q","R","S","T","U","V","W","X","Y","Z">>

DigitSeq ==
  <<"0","1","2","3","4","5","6","7","8","9">>

SeqRange(s) == { s[k] : k \in 1..Len(s) }

IndexOf(s, c) == CHOOSE k \in 1..Len(s) : s[k] = c

IsLower(c) == c \in SeqRange(LowerSeq)

IsUpper(c) == c \in SeqRange(UpperSeq)

IsDigit(c) == c \in SeqRange(DigitSeq)

\* String.prototype.charCodeAt for one character
charCodeAt(c) ==
  IF IsLower(c) THEN 96 + IndexOf(LowerSeq, c)
  ELSE IF IsUpper(c) THEN 64 + IndexOf(UpperSeq, c)
  ELSE IF IsDigit(c) THEN 47 + IndexOf(DigitSeq, c)
  ELSE IF c = " " THEN 32
  ELSE IF c = "\"" THEN 34
  ELSE IF c = "'" THEN 39
  ELSE IF c = "," THEN 44
  ELSE IF c = "-" THEN 45
  ELSE IF c = "." THEN 46
  ELSE IF c = "/" THEN 47
  ELSE IF c = ":" THEN 58
  ELSE IF c = "_" THEN 95
  ELSE IF c = "|" THEN 124
  ELSE IF c = "e_acute" THEN 233
  ELSE 769

MapSeq(Op(_), s) == [k \in 1..Len(s) |-> Op(s[k])]

\* String.prototype.toLowerCase
toLowerCase(s) ==
  LET toLowerChar(c) == IF IsUpper(c) THEN LowerSeq[IndexOf(UpperSeq, c)] ELSE c
  IN  MapSeq(toLowerChar, s)

\* String.prototype.normalize('NFKD')
normalizeNFKD(s) ==
  LET nfkdChar(c) == IF c = "e_acute" THEN <<"e", "acute">> ELSE <<c>>
      RECURSIVE Flatten(_)
      Flatten(ss) == IF ss = <<>> THEN <<>> ELSE Head(ss) \o Flatten(Tail(ss))
  IN  Flatten(MapSeq(nfkdChar, s))

\* String.prototype.trim
trim(s) ==
  LET RECURSIVE trimStart(_)
      trimStart(u) ==
        IF u # <<>> /\ Head(u) = " " THEN trimStart(Tail(u)) ELSE u
      RECURSIVE trimEnd(_)
      trimEnd(u) ==
        IF u # <<>> /\ u[Len(u)] = " "
          THEN trimEnd(SubSeq(u, 1, Len(u) - 1))
          ELSE u
  IN  trimEnd(trimStart(s))

\* s.split(sep) for a one-character separator: a sequence of strings
split(s, sep) ==
  LET RECURSIVE splitAcc(_, _)
      splitAcc(u, cur) ==
        IF u = <<>> THEN <<cur>>
        ELSE IF Head(u) = sep THEN <<cur>> \o splitAcc(Tail(u), <<>>)
        ELSE splitAcc(Tail(u), Append(cur, Head(u)))
  IN  splitAcc(s, <<>>)

\* s.replace(/[class]+/g, rep): every maximal run of characters of the class
\* becomes rep
RECURSIVE replaceRuns(_, _, _, _)
replaceRuns(s, InClass(_), rep, inRun) ==
  IF s = <<>> THEN <<>>
  ELSE IF InClass(Head(s))
    THEN (IF inRun THEN <<>> ELSE rep) \o replaceRuns(Tail(s), InClass, rep, TRUE)
    ELSE <<Head(s)>> \o replaceRuns(Tail(s), InClass, rep, FALSE)

\* s.slice(0, n)
slice0(s, n) == SubSeq(s, 1, IF Len(s) < n THEN Len(s) ELSE n)

\* ------------------------------------------------------------------------
\* slug.ts
\* ------------------------------------------------------------------------
\* variant: leading and trailing hyphens are not removed
slugify_keepEnds(input) ==
  LET NotCombiningMark(c) == c # "acute"
      NotQuote(c) == c \notin {"'", "\""}
      IsNotSlugChar(c) == ~(IsLower(c) \/ IsDigit(c))
      s1 == normalizeNFKD(input)
      s2 == SelectSeq(s1, NotCombiningMark)
      s3 == trim(s2)
      s4 == toLowerCase(s3)
      s5 == SelectSeq(s4, NotQuote)
  IN  replaceRuns(s5, IsNotSlugChar, <<"-">>, FALSE)

slugify(input) ==
  LET NotCombiningMark(c) == c # "acute"
      NotQuote(c) == c \notin {"'", "\""}
      IsNotSlugChar(c) == ~(IsLower(c) \/ IsDigit(c))
      IsHyphen(c) == c = "-"
      RECURSIVE stripLeading(_)
      stripLeading(u) ==
        IF u # <<>> /\ Head(u) = "-" THEN stripLeading(Tail(u)) ELSE u
      RECURSIVE stripTrailing(_)
      stripTrailing(u) ==
        IF u # <<>> /\ u[Len(u)] = "-"
          THEN stripTrailing(SubSeq(u, 1, Len(u) - 1))
          ELSE u
      s1 == normalizeNFKD(input)
      s2 == SelectSeq(s1, NotCombiningMark)
      s3 == trim(s2)
      s4 == toLowerCase(s3)
      s5 == SelectSeq(s4, NotQuote)
      s6 == replaceRuns(s5, IsNotSlugChar, <<"-">>, FALSE)
      s7 == stripTrailing(stripLeading(s6))
      s8 == replaceRuns(s7, IsHyphen, <<"-">>, FALSE)
  IN  s8

\* the value that is not a string (undefined, a number, null)
NotAString == <<"<not-a-string>">>

safeText(input, fallback) ==
  IF input = NotAString THEN fallback ELSE trim(input)

\* ------------------------------------------------------------------------
\* String.prototype.localeCompare (root collation): primary strength is the
\* base letter, secondary the accent, tertiary the case (lower case first)
\* ------------------------------------------------------------------------
\* lexicographic comparison of two number sequences: -1, 0 or 1
RECURSIVE compareWeights(_, _)
compareWeights(a, b) ==
  IF a = <<>> /\ b = <<>> THEN 0
  ELSE IF a = <<>> THEN -1
  ELSE IF b = <<>> THEN 1
  ELSE IF Head(a) < Head(b) THEN -1
  ELSE IF Head(a) > Head(b) THEN 1
  ELSE compareWeights(Tail(a), Tail(b))

localeCompare(a, b) ==
  LET \* punctuation in the order the root collation gives it
      PunctSeq == <<" ", "_", "-", ",", ":", ".", "'", "\"", "/", "|">>
      baseChar(c) == IF c = "e_acute" THEN "e" ELSE toLowerCase(<<c>>)[1]
      primaryWeight(c) ==
        LET bc == baseChar(c)
        IN  IF bc \in SeqRange(PunctSeq) THEN IndexOf(PunctSeq, bc)
            ELSE IF IsDigit(bc) THEN 20 + IndexOf(DigitSeq, bc)
            ELSE IF IsLower(bc) THEN 40 + IndexOf(LowerSeq, bc)
            ELSE 0
      secondaryWeight(c) == IF c = "e_acute" THEN 1 ELSE 0
      tertiaryWeight(c) == IF IsUpper(c) THEN 1 ELSE 0
      IsCollated(c) == primaryWeight(c) # 0
      NotCombiningMark(c) == c # "acute"
      ca == SelectSeq(normalizeNFKD(a), IsCollated)
      cb == SelectSeq(normalizeNFKD(b), IsCollated)
      na == SelectSeq(a, NotCombiningMark)
      nb == SelectSeq(b, NotCombiningMark)
      p == compareWeights(MapSeq(primaryWeight, ca), MapSeq(primaryWeight, cb))
      q == compareWeights(MapSeq(secondaryWeight, na), MapSeq(secondaryWeight, nb))
      t == compareWeights(MapSeq(tertiaryWeight, na), MapSeq(tertiaryWeight, nb))
  IN  IF p # 0 THEN p ELSE IF q # 0 THEN q ELSE t

\* ------------------------------------------------------------------------
\* dealers.ts: slugs
\* ------------------------------------------------------------------------
\* the empty string stands for undefined: every caller tests truthiness only
guessCityFromPath(path) ==
  LET IsHyphenOrUnderscore(c) == c \in {"-", "_"}
      endsWith(u, suffix) ==
        /\ Len(u) >= Len(suffix)
        /\ SubSeq(u, Len(u) - Len(suffix) + 1, Len(u)) = suffix
      parts == split(path, "/")
      file == parts[Len(parts)]
      base == IF endsWith(toLowerCase(file), <<".", "j", "s", "o", "n">>)
                THEN SubSeq(file, 1, Len(file) - 5)
                ELSE file
      first == split(base, ",")[1]
      cleaned == trim(replaceRuns(first, IsHyphenOrUnderscore, <<" ">>, FALSE))
  IN  IF base = <<>> THEN <<>> ELSE cleaned

cityNameFromRecordOrPath(r, path) ==
  LET fromRecord == safeText(r.city, <<>>)
      guessed == guessCityFromPath(path)
  IN  IF fromRecord # <<>> THEN fromRecord
      ELSE IF guessed # <<>> THEN guessed
      ELSE <<"I", "n", "d", "i", "a">>

ShortIdLen == 8

shortId(input) ==
  LET IsAlnum(c) == IsLower(c) \/ IsUpper(c) \/ IsDigit(c)
      s == SelectSeq(safeText(input, <<"u", "n", "k", "n", "o", "w", "n">>), IsAlnum)
  IN  IF Len(s) <= ShortIdLen THEN toLowerCase(s)
      ELSE toLowerCase(SubSeq(s, Len(s) - ShortIdLen + 1, Len(s)))

\* 2^16: a 32-bit integer is kept as two 16-bit limbs <<hi, lo>>
Two16 == 65536

\* let h = 5381; h = (h * 33) ^ charCode for each character;
\* (h >>> 0).toString(36).slice(0, 8)
hashId(input) ==
  LET RECURSIVE xorBits(_, _)
      xorBits(a, b) ==
        IF a = 0 THEN b
        ELSE IF b = 0 THEN a
        ELSE (((a % 2) + (b % 2)) % 2) + (2 * xorBits(a \div 2, b \div 2))
      \* ToInt32(h * 33) ^ c, for a character code c below 2^16
      hashStep(h, c) ==
        LET lo33 == h[2] * 33
            hi33 == ((h[1] * 33) + (lo33 \div Two16)) % Two16
        IN  <<hi33, xorBits(lo33 % Two16, c)>>
      RECURSIVE hashFold(_, _)
      hashFold(h, u) ==
        IF u = <<>> THEN h
        ELSE hashFold(hashStep(h, charCodeAt(Head(u))), Tail(u))
      Base36Seq == DigitSeq \o LowerSeq
      RECURSIVE toString36(_)
      toString36(h) ==
        LET qhi == h[1] \div 36
            mid == ((h[1] % 36) * Two16) + h[2]
            qlo == mid \div 36
            d == Base36Seq[(mid % 36) + 1]
        IN  IF qhi = 0 /\ qlo = 0 THEN <<d>>
            ELSE Append(toString36(<<qhi, qlo>>), d)
  IN  slice0(toString36(hashFold(<<0, 5381>>, input)), 8)

buildDealerSlug(title, placeId, address) ==
  LET t == slugify(IF title # <<>> THEN title ELSE <<"d", "e", "a", "l", "e", "r">>)
      id == safeText(placeId, <<>>)
  IN  IF id # <<>>
        THEN t \o <<"-">> \o shortId(id)
        ELSE t \o <<"-">> \o hashId(title \o <<"|">> \o safeText(address, <<>>))

\* ------------------------------------------------------------------------
\* Array.prototype.sort: stable, by a comparator returning a number
\* ------------------------------------------------------------------------
sort(arr, cmp(_, _)) ==
  LET RECURSIVE insertStable(_, _)
      insertStable(x, sorted) ==
        IF sorted = <<>> THEN <<x>>
        ELSE IF cmp(x, Head(sorted)) < 0 THEN <<x>> \o sorted
        ELSE <<Head(sorted)>> \o insertStable(x, Tail(sorted))
      RECURSIVE sortFrom(_, _)
      sortFrom(rest, sorted) ==
        IF rest = <<>> THEN sorted
        ELSE sortFrom(Tail(rest), insertStable(Head(rest), sorted))
  IN  sortFrom(arr, <<>>)
\* ------------------------------------------------------------------------
\* dealers.ts: the index
\* ------------------------------------------------------------------------
Str_Dealer == <<"D", "e", "a", "l", "e", "r">>

Undefined == [defined |-> FALSE, value |-> <<>>]

Defined(v) == [defined |-> TRUE, value |-> v]

\* variant: the placeId is ignored when the key is built
dedupKey_withoutPlaceId(citySlug, placeId, title, address) ==
  citySlug \o <<":">> \o title \o <<":">> \o safeText(address, <<>>)

dedupKey(citySlug, placeId, title, address) ==
  IF placeId # <<>>
    THEN citySlug \o <<":">> \o placeId
    ELSE citySlug \o <<":">> \o title \o <<":">> \o safeText(address, <<>>)

\* const citySlug = slugify(cityName || 'india')
citySlugOfRecord(r, path) ==
  LET cityName == cityNameFromRecordOrPath(r, path)
  IN  slugify(IF cityName # <<>> THEN cityName ELSE <<"i", "n", "d", "i", "a">>)

toDealer(r, path) ==
  LET placeId == safeText(r.placeId, <<>>)
      t == safeText(r.title, <<>>)
      title == IF t # <<>> THEN t ELSE Str_Dealer
      cityName == cityNameFromRecordOrPath(r, path)
      citySlug == citySlugOfRecord(r, path)
  IN  [ d |-> [ title |-> r.title, placeId |-> r.placeId,
                address |-> r.address, city |-> r.city,
                totalScore |-> r.totalScore,
                cityName |-> cityName, citySlug |-> citySlug,
                dealerSlug |-> buildDealerSlug(title, placeId, r.address) ],
        key |-> dedupKey(citySlug, placeId, title, r.address) ]

\* all records of all files, in file order then record order, with their path
RECURSIVE entriesOf(_)
entriesOf(mods) ==
  IF mods = <<>> THEN <<>>
  ELSE [k \in 1..Len(Head(mods).records) |->
          toDealer(Head(mods).records[k], Head(mods).path)]
       \o entriesOf(Tail(mods))

\* the loop body of getAllDealers over the flattened records: c.d is the
\* dealer the iteration would push and c.key its local variable key
RECURSIVE collectDealers(_, _, _)
collectDealers(cands, seen, out) ==
  IF cands = <<>> THEN out
  ELSE LET c == Head(cands)
       IN  IF c.d.citySlug = <<>> THEN collectDealers(Tail(cands), seen, out)
           ELSE IF c.key \in seen THEN collectDealers(Tail(cands), seen, out)
           ELSE collectDealers(Tail(cands), seen \cup {c.key}, Append(out, c.d))

\* getAllDealers(): the value it returns in a state
allDealersOf(cache, mods) ==
  IF cache.defined THEN cache.value
  ELSE collectDealers(entriesOf(mods), {}, <<>>)

\* the byCity Map of getCities, as a list of entries in insertion order
RECURSIVE groupCounts(_, _)
groupCounts(ds, byCity) ==
  IF ds = <<>> THEN byCity
  ELSE LET d == Head(ds)
           hit == { k \in 1..Len(byCity) : byCity[k].citySlug = d.citySlug }
       IN  IF hit = {}
             THEN groupCounts(Tail(ds),
                    Append(byCity, [citySlug |-> d.citySlug,
                                    cityName |-> d.cityName, count |-> 1]))
             ELSE groupCounts(Tail(ds),
                    [k \in 1..Len(byCity) |->
                       IF k \in hit
                         THEN [byCity[k] EXCEPT !.count = @ + 1]
                         ELSE byCity[k]])

\* variant: the counts are compared the other way round
cmpCities_ascending(a, b) ==
  IF a.count - b.count # 0 THEN a.count - b.count
  ELSE localeCompare(a.cityName, b.cityName)

cmpCities(a, b) ==
  IF b.count - a.count # 0 THEN b.count - a.count
  ELSE localeCompare(a.cityName, b.cityName)

\* getCities(): the value it returns in a state
citiesOf(cache, ds) ==
  IF cache.defined THEN cache.value ELSE sort(groupCounts(ds, <<>>), cmpCities)

cmpDealers(a, b) ==
  LET scoreOf(d) == IF d.totalScore = <<>> THEN -1 ELSE d.totalScore[1]
  IN  IF scoreOf(b) - scoreOf(a) # 0 THEN scoreOf(b) - scoreOf(a)
      ELSE localeCompare(safeText(a.title, <<>>), safeText(b.title, <<>>))

RECURSIVE groupDealers(_, _)
groupDealers(ds, m) ==
  IF ds = <<>> THEN m
  ELSE LET d == Head(ds)
           hit == { k \in 1..Len(m) : m[k].k = d.citySlug }
       IN  IF hit = {}
             THEN groupDealers(Tail(ds), Append(m, [k |-> d.citySlug, v |-> <<d>>]))
             ELSE groupDealers(Tail(ds),
                    [k \in 1..Len(m) |->
                       IF k \in hit THEN [m[k] EXCEPT !.v = Append(@, d)]
                       ELSE m[k]])

\* the _dealersByCity Map after getDealersByCitySlug has filled it
dealersByCityOf(cache, ds) ==
  LET m == groupDealers(ds, <<>>)
  IN  IF cache.defined THEN cache.value
      ELSE [k \in 1..Len(m) |-> [k |-> m[k].k, v |-> sort(m[k].v, cmpDealers)]]

\* Map.prototype.get(citySlug) ?? []
mapGet(m, citySlug) ==
  LET hit == { k \in 1..Len(m) : m[k].k = citySlug }
  IN  IF hit = {} THEN <<>> ELSE m[CHOOSE k \in hit : TRUE].v

\* Array.prototype.find: the first match, as a list of at most one dealer
findFirst(ds, dealerSlug) ==
  LET hit == { k \in 1..Len(ds) : ds[k].dealerSlug = dealerSlug }
  IN  IF hit = {} THEN <<>>
      ELSE <<ds[CHOOSE k \in hit : \A j \in hit : k <= j]>>

\* ------------------------------------------------------------------------
\* Inputs of the dealer index: the JSON records of src/data/cities/*.json
\* ------------------------------------------------------------------------
MaxRecords == 3

Path1 ==
  <<".", ".", "/", "d", "a", "t", "a", "/", "c", "i", "t", "i", "e", "s", "/",
    "n", "e", "w", "-", "d", "e", "l", "h", "i", ".", "j", "s", "o", "n">>

Path2 ==
  <<".", ".", "/", "d", "a", "t", "a", "/", "c", "i", "t", "i", "e", "s", "/",
    "p", "u", "n", "e", ".", "j", "s", "o", "n">>

RecordPool ==
  { [ title |-> <<"A", "b">>, placeId |-> <<"P", "Q">>, address |-> <<"x">>,
      city |-> <<"P", "u", "n", "e">>, totalScore |-> <<4>> ],
    [ title |-> <<"A", "b">>, placeId |-> <<"p", "q">>, address |-> <<"y">>,
      city |-> <<"P", "u", "n", "e">>, totalScore |-> <<5>> ],
    [ title |-> <<"Z", "e", "d">>, placeId |-> <<" ", "P", "Q", " ">>,
      address |-> <<"z">>, city |-> <<"p", "u", "n", "e", " ">>,
      totalScore |-> <<>> ],
    [ title |-> NotAString, placeId |-> NotAString, address |-> <<"x">>,
      city |-> NotAString, totalScore |-> <<>> ],
    [ title |-> <<"A", "b">>, placeId |-> <<>>, address |-> NotAString,
      city |-> <<"'">>, totalScore |-> <<4>> ] }

\* the records of the city files: up to MaxRecords different records
RecordSeqs ==
  { rs \in UNION { [1..n -> RecordPool] : n \in 0..MaxRecords } :
      \A x, y \in 1..Len(rs) : (x # y) => rs[x] # rs[y] }

NoCall ==
  [ op |-> "none", citySlug |-> <<>>, dealerSlug |-> <<>>,
    dealers |-> <<>>, cities |-> <<>> ]

Returned(op, citySlug, dealerSlug, dealers, cities) ==
  [ op |-> op, citySlug |-> citySlug, dealerSlug |-> dealerSlug,
    dealers |-> dealers, cities |-> cities ]

DealersInit ==
  /\ \E rs \in RecordSeqs : \E k \in 0..Len(rs) :
       dataModules = << [path |-> Path1, records |-> SubSeq(rs, 1, k)],
                        [path |-> Path2, records |-> SubSeq(rs, k + 1, Len(rs))] >>
  /\ _allDealers = Undefined
  /\ _cities = Undefined
  /\ _dealersByCity = Undefined
  /\ ret = NoCall

\* arguments a page can pass: the slugs of the data and one that matches none
NoSuchSlug == <<"n", "o", "n", "e">>

CitySlugArgs ==
  { d.citySlug : d \in SeqRange(allDealersOf(_allDealers, dataModules)) }
    \cup {NoSuchSlug}

FindDealerArgs ==
  { <<d.citySlug, d.dealerSlug>> :
      d \in SeqRange(allDealersOf(_allDealers, dataModules)) }
    \cup {<<NoSuchSlug, NoSuchSlug>>}

\* ------------------------------------------------------------------------
\* dealers.ts: the exported calls
\* ------------------------------------------------------------------------
getAllDealers ==
  LET out == allDealersOf(_allDealers, dataModules)
  IN  /\ _allDealers' = Defined(out)
      /\ ret' = Returned("getAllDealers", <<>>, <<>>, out, <<>>)
      /\ UNCHANGED <<notDealers, dataModules, _cities, _dealersByCity>>

getCities ==
  LET ds == allDealersOf(_allDealers, dataModules)
      cs == citiesOf(_cities, ds)
  IN  /\ _allDealers' = IF _cities.defined THEN _allDealers ELSE Defined(ds)
      /\ _cities' = Defined(cs)
      /\ ret' = Returned("getCities", <<>>, <<>>, <<>>, cs)
      /\ UNCHANGED <<notDealers, dataModules, _dealersByCity>>

getDealersByCitySlug(citySlug) ==
  LET ds == allDealersOf(_allDealers, dataModules)
      m == dealersByCityOf(_dealersByCity, ds)
  IN  /\ _allDealers' = IF _dealersByCity.defined THEN _allDealers ELSE Defined(ds)
      /\ _dealersByCity' = Defined(m)
      /\ ret' = Returned("getDealersByCitySlug", citySlug, <<>>,
                         mapGet(m, citySlug), <<>>)
      /\ UNCHANGED <<notDealers, dataModules, _cities>>

findDealer(citySlug, dealerSlug) ==
  LET ds == allDealersOf(_allDealers, dataModules)
      m == dealersByCityOf(_dealersByCity, ds)
  IN  /\ _allDealers' = IF _dealersByCity.defined THEN _allDealers ELSE Defined(ds)
      /\ _dealersByCity' = Defined(m)
      /\ ret' = Returned("findDealer", citySlug, dealerSlug,
                         findFirst(mapGet(m, citySlug), dealerSlug), <<>>)
      /\ UNCHANGED <<notDealers, dataModules, _cities>>

\* ------------------------------------------------------------------------
\* sitemap.xml.ts: GET reads the index and sorts getCities() in place
\* ------------------------------------------------------------------------
TopCities == 80

\* variant: the sitemap orders the cities by their name
cmpCount_byName(a, b) == localeCompare(b.cityName, a.cityName)

cmpCount(a, b) == b.count - a.count

sitemapGET ==
  LET ds == allDealersOf(_allDealers, dataModules)
      cs == citiesOf(_cities, ds)
      sorted == sort(cs, cmpCount)
  IN  /\ _allDealers' = Defined(ds)
      /\ _cities' = Defined(sorted)
      /\ ret' = Returned("sitemapGET", <<>>, <<>>, ds, slice0(sorted, TopCities))
      /\ UNCHANGED <<notDealers, dataModules, _dealersByCity>>

DealersNext ==
  \/ getAllDealers
  \/ getCities
  \/ \E c \in CitySlugArgs : getDealersByCitySlug(c)
  \/ \E a \in FindDealerArgs : findDealer(a[1], a[2])
  \/ sitemapGET

\* ------------------------------------------------------------------------
\* mapWithConcurrency (robots.txt.ts 115-127, part_002 119-131,
\* city-covers-from-unsplash-to-r2.mjs 116-128) and the batch that uses it
\* ------------------------------------------------------------------------
MaxItems == 3

MaxConcurrencyArg == 3

DefaultConcurrency == 8

ItemPool == {"u1", "u2"}

Empty == <<"empty">>

UndefinedVal == <<"undefined">>

\* Math.max(1, Number(pickArg('--concurrency', '8')) || 8); arg 0 stands for
\* an absent, zero or non-numeric argument
parseConcurrency(arg) ==
  LET Max(a, b) == IF a >= b THEN a ELSE b
  IN  Max(1, IF arg = 0 THEN DefaultConcurrency ELSE arg)

\* variant: one pool worker more than asked for
poolSize_oneMore(c) == c + 1

\* Array.from({ length: concurrency }, ...): the number of pool workers
poolSize(c) == c

\* variant: the slot is read from the shared counter after the await
resultSlot_sharedIndex(idx, shared) == shared

\* results[idx] = await worker(items[idx], idx): the slot that is written
resultSlot(idx, shared) == idx

\* variant: a pool worker stops once the helper's promise has rejected
loopContinues_untilRejected(promiseState) == promiseState # "rejected"

\* while (true): a pool worker goes on whatever became of the others
loopContinues(promiseState) == TRUE

\* what a worker call answers for an item when nothing fails
workerValue(item, idx) == <<item, idx>>

\* variant: the callback has no try/catch
callFulfils_uncaught(isCatching, success) == success

\* the worker call fulfils unless its operation failed outside a try/catch
callFulfils(isCatching, success) == isCatching \/ success

PoolInit ==
  /\ items \in UNION { [1..n -> ItemPool] : n \in 0..MaxItems }
  /\ \E arg \in 0..MaxConcurrencyArg : concurrency = parseConcurrency(arg)
  /\ catching \in BOOLEAN
  /\ poolpc = "init"
  /\ i = 0
  /\ results = [k \in 1..Len(items) |-> Empty]
  /\ wst = <<>>
  /\ allState = "pending"
  /\ handed = [k \in 1..Len(items) |-> 0]
  /\ returnedVal = [k \in 1..Len(items) |-> Empty]
  /\ inFlight = 0
  /\ ok = 0
  /\ fail = 0
  /\ counted = [k \in 1..Len(items) |-> 0]

\* const idx = i++; if (idx >= items.length) return; ... worker(items[idx])
\* on the record p of the fields i, wst, handed, inFlight, for pool worker w
takeNext(p, w, n) ==
  LET idx == p.i
  IN  IF idx >= n
        THEN [p EXCEPT !.i = idx + 1,
                       !.wst[w] = [st |-> "returned", idx |-> idx]]
        ELSE [p EXCEPT !.i = idx + 1,
                       !.wst[w] = [st |-> "awaiting", idx |-> idx],
                       !.handed[idx + 1] = @ + 1,
                       !.inFlight = @ + 1]

\* the synchronous start of every pool worker, in array order
RECURSIVE startWorkers(_, _, _, _)
startWorkers(p, w, size, n) ==
  IF w > size THEN p ELSE startWorkers(takeNext(p, w, n), w + 1, size, n)

mapWithConcurrency ==
  /\ poolpc = "init"
  /\ LET size == poolSize(concurrency)
         p0 == [ i |-> 0, handed |-> handed, inFlight |-> 0,
                 wst |-> [w \in 1..size |-> [st |-> "idle", idx |-> 0]] ]
         p == startWorkers(p0, 1, size, Len(items))
     IN  /\ i' = p.i
         /\ wst' = p.wst
         /\ handed' = p.handed
         /\ inFlight' = p.inFlight
  /\ poolpc' = "running"
  /\ UNCHANGED <<notPool, items, concurrency, catching, results, allState, returnedVal,
                 ok, fail, counted>>

\* the worker call of pool worker w settles; success is the outcome of the
\* operation inside it (ensureUploaded, the photo search)
WorkerSettles(w, success) ==
  /\ poolpc = "running"
  /\ wst[w].st = "awaiting"
  /\ LET idx == wst[w].idx
         fulfils == callFulfils(catching, success)
     IN  /\ inFlight' = inFlight - 1
         /\ ok' = IF catching /\ success THEN ok + 1 ELSE ok
         /\ fail' = IF catching /\ ~success THEN fail + 1 ELSE fail
         /\ counted' = IF catching THEN [counted EXCEPT ![idx + 1] = @ + 1]
                       ELSE counted
         /\ returnedVal' =
              IF ~fulfils THEN returnedVal
              ELSE [returnedVal EXCEPT ![idx + 1] =
                      IF catching THEN UndefinedVal
                      ELSE workerValue(items[idx + 1], idx)]
         /\ wst' = [wst EXCEPT ![w].st = IF fulfils THEN "fulfilled" ELSE "failed"]
  /\ UNCHANGED <<notPool, items, concurrency, catching, poolpc, i, results, allState,
                 handed>>

\* the continuation of pool worker w after its await
WorkerResumes(w) ==
  /\ poolpc = "running"
  /\ wst[w].st \in {"fulfilled", "failed"}
  /\ IF wst[w].st = "failed"
       THEN /\ wst' = [wst EXCEPT ![w].st = "rejected"]
            /\ allState' = IF allState = "pending" THEN "rejected" ELSE allState
            /\ UNCHANGED <<i, results, handed, inFlight>>
       ELSE LET idx == wst[w].idx
                slot == resultSlot(idx, i - 1)
                p0 == [i |-> i, wst |-> wst, handed |-> handed,
                       inFlight |-> inFlight]
                p == IF loopContinues(allState)
                       THEN takeNext(p0, w, Len(items))
                       ELSE [p0 EXCEPT !.wst[w].st = "returned"]
            IN  /\ results' = IF slot + 1 \in DOMAIN results
                                THEN [results EXCEPT ![slot + 1] = returnedVal[idx + 1]]
                                ELSE results
                /\ i' = p.i
                /\ wst' = p.wst
                /\ handed' = p.handed
                /\ inFlight' = p.inFlight
                /\ UNCHANGED allState
  /\ UNCHANGED <<notPool, items, concurrency, catching, poolpc, returnedVal, ok, fail,
                 counted>>

\* await Promise.all(workers): fulfilled once every pool worker has returned
PromiseAllResolves ==
  /\ poolpc = "running"
  /\ allState = "pending"
  /\ \A w \in DOMAIN wst : wst[w].st = "returned"
  /\ allState' = "resolved"
  /\ UNCHANGED <<notPool, items, concurrency, catching, poolpc, i, results, wst, handed,
                 returnedVal, inFlight, ok, fail, counted>>

PoolNext ==
  \/ mapWithConcurrency
  \/ \E w \in DOMAIN wst : \E success \in BOOLEAN : WorkerSettles(w, success)
  \/ \E w \in DOMAIN wst : WorkerResumes(w)
  \/ PromiseAllResolves

\* ------------------------------------------------------------------------
\* The cars API client: src/lib/api.ts (REST) and its SQL-over-HTTP variant
\* ------------------------------------------------------------------------
MaxRows == 2

\* rows of used_cars as the remote answers them; t = "null" is a null element
CarA ==
  [ t |-> "car", id |-> 1, used_car_id |-> 11, oem |-> <<"b">>,
    city |-> <<"P">>, body_type |-> <<"s">>, fuel_type |-> <<>>,
    image_url |-> "img1" ]

CarB ==
  [ t |-> "car", id |-> 2, used_car_id |-> 0, oem |-> <<"A">>,
    city |-> <<"P">>, body_type |-> <<>>, fuel_type |-> <<"d">>,
    image_url |-> "" ]

CarNull ==
  [ t |-> "null", id |-> 0, used_car_id |-> 0, oem |-> <<>>, city |-> <<>>,
    body_type |-> <<>>, fuel_type |-> <<>>, image_url |-> "" ]

RowPool == {CarA, [CarA EXCEPT !.image_url = "img2"], CarB, CarNull}

RowLists == UNION { [1..n -> RowPool] : n \in 0..MaxRows }

\* a response body: "unparsable" (json() throws), the JSON null, an object
\* without results, an object whose results is the number 5, a top-level
\* array, an object with a results array, or a bare car object
Body(shape, list, hasMeta, success) ==
  [shape |-> shape, list |-> list, hasMeta |-> hasMeta, success |-> success]

Bodies ==
  { Body(sh, <<>>, FALSE, "undefined") :
      sh \in {"unparsable", "null", "noResults", "resultsNotArray"} }
  \cup { Body("array", l, FALSE, "undefined") : l \in RowLists }
  \cup { Body("results", l, TRUE, "true") : l \in RowLists }
  \cup { Body("results", l, FALSE, "undefined") : l \in RowLists }
  \cup { Body("object", <<c>>, FALSE, "undefined") : c \in {CarA, CarB} }

NoBody == Body("unparsable", <<>>, FALSE, "undefined")

\* the outcome of one fetch: a network error, or a response
NetworkError == [net |-> "error", ok |-> FALSE, body |-> NoBody]

NonOk == [net |-> "ok", ok |-> FALSE, body |-> NoBody]

Responses ==
  {NetworkError, NonOk} \cup { [net |-> "ok", ok |-> TRUE, body |-> b] : b \in Bodies }

\* outcomes of a car_images fetch: kind and, for a list, its entries
ImgResponse(kind, list) == [kind |-> kind, list |-> list]

ImgEntry(t, v) == [t |-> t, v |-> v]

ImgResponses ==
  { ImgResponse("neterr", <<>>), ImgResponse("nonok", <<>>),
    ImgResponse("list", <<>>),
    ImgResponse("list", <<ImgEntry("string", "img1"), ImgEntry("object", "img2"),
                          ImgEntry("object", "")>>),
    ImgResponse("list", <<ImgEntry("object", "img2"), ImgEntry("null", "")>>) }

\* the image fetches that fail: no response, a non-OK status, a bad body
FailedImgResponses ==
  { r \in ImgResponses :
      \/ r.kind \in {"neterr", "nonok"}
      \/ \E k \in 1..Len(r.list) : r.list[k].t = "null" }

\* ---- results ------------------------------------------------------------
NoMeta == [kind |-> "empty", total |-> 0]

NoFilters ==
  [oems |-> <<>>, cities |-> <<>>, bodyTypes |-> <<>>, fuelTypes |-> <<>>]

Result(kind, cars, success, meta, filters) ==
  [ kind |-> kind, cars |-> cars, success |-> success, meta |-> meta,
    filters |-> filters ]

Threw == Result("threw", <<>>, "undefined", NoMeta, NoFilters)

RList(cars) == Result("list", cars, "undefined", NoMeta, NoFilters)

RNull == Result("null", <<>>, "undefined", NoMeta, NoFilters)

RCar(c) == Result("car", <<c>>, "undefined", NoMeta, NoFilters)

RCars(success, cars, meta) == Result("result", cars, success, meta, NoFilters)

\* the query variant hands a non-array results value through
RCarsNotArray(success, meta) == Result("resultNotArray", <<>>, success, meta, NoFilters)

RFilters(f) == Result("filters", <<>>, "undefined", NoMeta, f)

FallbackCars == RCars("false", <<>>, NoMeta)

FallbackFilters == RFilters(NoFilters)

\* variant: the catch clause hands the exception on
tryCatch_rethrow(r, fallback) == r

\* try { ... } catch (e) { console.error(...); return fallback; }
tryCatch(r, fallback) == IF r.kind = "threw" THEN fallback ELSE r

\* ---- api.ts: getCarImages --------------------------------------------------
\* the images of one car; a fetch that fails, a non-OK status and a body
\* whose use throws all give the empty list
getCarImages(r) ==
  IF r.kind \in {"neterr", "nonok"} THEN <<>>
  ELSE IF \E k \in 1..Len(r.list) : r.list[k].t = "null" THEN <<>>
  ELSE LET urls == [k \in 1..Len(r.list) |-> r.list[k].v]
           IsUrl(u) == u # ""
       IN  SelectSeq(urls, IsUrl)

\* { ...car, image_url: images.length > 0 ? images[0] : undefined, images }
withImages(car, images) ==
  [ row |-> car, image_url |-> IF Len(images) > 0 THEN images[1] ELSE "",
    images |-> images ]

\* const cars = Array.isArray(data) ? data : data.results || [];
\* [threw, isArray, list]
carsOfBody(b) ==
  IF b.shape \in {"unparsable", "null"}
    THEN [threw |-> TRUE, isArray |-> FALSE, list |-> <<>>]
  ELSE IF b.shape \in {"array", "results"}
    THEN [threw |-> FALSE, isArray |-> TRUE, list |-> b.list]
  ELSE IF b.shape = "resultsNotArray"
    THEN [threw |-> FALSE, isArray |-> FALSE, list |-> <<>>]
  ELSE [threw |-> FALSE, isArray |-> TRUE, list |-> <<>>]

HasNullRow(list) == \E k \in 1..Len(list) : list[k].t = "null"

\* await Promise.all(cars.map(async (car) => ...)): the cars with their
\* images; imgs[k] is the outcome of the image fetch for the k-th car
carsWithImages(list, imgs) ==
  [k \in 1..Len(list) |-> withImages(list[k], getCarImages(imgs[k]))]

\* ---- api.ts: the exported calls -------------------------------------------
getAllUsedCars(resp, imgs) ==
  tryCatch(
      IF resp.net = "error" THEN Threw
      ELSE IF ~resp.ok THEN RList(<<>>)
      ELSE LET c == carsOfBody(resp.body)
           IN  IF c.threw \/ ~c.isArray \/ HasNullRow(c.list) THEN Threw
               ELSE RList(carsWithImages(c.list, imgs)),
    RList(<<>>))

getCars(resp, imgs) ==
  tryCatch(
      IF resp.net = "error" THEN Threw
      ELSE IF ~resp.ok THEN FallbackCars
      ELSE LET c == carsOfBody(resp.body)
           IN  IF c.threw \/ ~c.isArray \/ HasNullRow(c.list) THEN Threw
               ELSE RCars("true", carsWithImages(c.list, imgs),
                          IF resp.body.hasMeta THEN [kind |-> "given", total |-> 0]
                          ELSE [kind |-> "total", total |-> Len(c.list)]),
    FallbackCars)

\* Array.from(set).sort(): insertion order of the truthy values, then the
\* default sort by UTF-16 code units

RECURSIVE distinctTruthy(_, _)
distinctTruthy(vals, acc) ==
  IF vals = <<>> THEN acc
  ELSE IF Head(vals) = <<>> \/ Head(vals) \in SeqRange(acc)
    THEN distinctTruthy(Tail(vals), acc)
    ELSE distinctTruthy(Tail(vals), Append(acc, Head(vals)))

sortedSet(vals) ==
  LET cmpCodeUnits(a, b) ==
        compareWeights(MapSeq(charCodeAt, a), MapSeq(charCodeAt, b))
  IN  sort(distinctTruthy(vals, <<>>), cmpCodeUnits)

getFilterOptions(resp) ==
  tryCatch(
      IF resp.net = "error" THEN Threw
      ELSE IF ~resp.ok THEN FallbackFilters
      ELSE LET c == carsOfBody(resp.body)
               l == c.list
           IN  IF c.threw \/ ~c.isArray \/ HasNullRow(l) THEN Threw
               ELSE RFilters(
                      [ oems |-> sortedSet([k \in 1..Len(l) |-> l[k].oem]),
                        cities |-> sortedSet([k \in 1..Len(l) |-> l[k].city]),
                        bodyTypes |-> sortedSet([k \in 1..Len(l) |-> l[k].body_type]),
                        fuelTypes |-> sortedSet([k \in 1..Len(l) |-> l[k].fuel_type]) ]),
    FallbackFilters)

\* the object spread of undefined or null: a car without any field
NoRow == [CarNull EXCEPT !.t = "none"]

getCarDetails(resp, img) ==
  tryCatch(
      IF resp.net = "error" THEN Threw
      ELSE IF ~resp.ok THEN RNull
      ELSE LET c == carsOfBody(resp.body)
           IN  IF c.threw THEN Threw
               ELSE IF c.isArray /\ Len(c.list) = 0 THEN RNull
               ELSE LET car == IF ~c.isArray \/ c.list[1].t = "null" THEN NoRow
                               ELSE c.list[1]
                    IN  RCar(withImages(car, getCarImages(img))),
    RNull)

\* the response getCarByRowId goes on with: the first, or the retry by query
finalResponse(resp1, resp2) ==
  IF resp1.net = "ok" /\ ~resp1.ok THEN resp2 ELSE resp1

getCarByRowId(resp1, resp2, img) ==
  tryCatch(
      LET resp == finalResponse(resp1, resp2)
          b == resp.body
      IN  IF resp.net = "error" THEN Threw
          ELSE IF ~resp.ok THEN RNull
          ELSE IF b.shape \in {"unparsable", "null"} THEN Threw
          ELSE LET car == IF b.shape \in {"array", "results"}
                            THEN (IF Len(b.list) > 0 THEN b.list[1] ELSE CarNull)
                          ELSE IF b.shape = "object" THEN b.list[1]
                          ELSE NoRow
               IN  IF car.t = "null" \/ car.used_car_id = 0 THEN RNull
                   ELSE RCar(withImages(car, getCarImages(img))),
    RNull)

\* ---- the SQL-over-HTTP variant of the client (part_001) -------------------
\* const rows = data.results || [];  [threw, isArray, list]
rowsOfBody(b) ==
  IF b.shape \in {"unparsable", "null"}
    THEN [threw |-> TRUE, isArray |-> FALSE, list |-> <<>>]
  ELSE IF b.shape = "results"
    THEN [threw |-> FALSE, isArray |-> TRUE, list |-> b.list]
  ELSE IF b.shape = "resultsNotArray"
    THEN [threw |-> FALSE, isArray |-> FALSE, list |-> <<>>]
  ELSE [threw |-> FALSE, isArray |-> TRUE, list |-> <<>>]

\* the distinct truthy image_url values of the rows with the given id
RECURSIVE imagesOfRows(_, _, _)
imagesOfRows(rows, id, acc) ==
  IF rows = <<>> THEN acc
  ELSE LET r == Head(rows)
       IN  IF r.id = id /\ r.image_url # "" /\ r.image_url \notin SeqRange(acc)
             THEN imagesOfRows(Tail(rows), id, Append(acc, r.image_url))
             ELSE imagesOfRows(Tail(rows), id, acc)

\* carsMap: one car per row id in first-seen order, the join columns removed
RECURSIVE groupRows(_, _, _)
groupRows(rest, all, seenIds) ==
  IF rest = <<>> THEN <<>>
  ELSE LET r == Head(rest)
       IN  IF r.id \in seenIds THEN groupRows(Tail(rest), all, seenIds)
           ELSE << [ row |-> [r EXCEPT !.image_url = ""], image_url |-> "",
                     images |-> imagesOfRows(all, r.id, <<>>) ] >>
                \o groupRows(Tail(rest), all, seenIds \cup {r.id})

getAllUsedCarsQuery(resp) ==
  tryCatch(
      IF resp.net = "error" THEN Threw
      ELSE IF ~resp.ok THEN RList(<<>>)
      ELSE LET c == rowsOfBody(resp.body)
           IN  IF c.threw \/ ~c.isArray \/ HasNullRow(c.list) THEN Threw
               ELSE RList(groupRows(c.list, c.list, {})),
    RList(<<>>))

\* a row handed through as it came
rawRow(r) == [row |-> r, image_url |-> r.image_url, images |-> <<>>]

getCarsQuery(resp) ==
  tryCatch(
      IF resp.net = "error" THEN Threw
      ELSE IF ~resp.ok THEN FallbackCars
      ELSE LET b == resp.body
               c == rowsOfBody(b)
               meta == IF b.hasMeta THEN [kind |-> "given", total |-> 0] ELSE NoMeta
           IN  IF c.threw THEN Threw
               ELSE IF ~c.isArray THEN RCarsNotArray(b.success, meta)
               ELSE RCars(b.success, MapSeq(rawRow, c.list), meta),
    FallbackCars)

\* (data.results || []).map((r) => r[column]).filter(Boolean), or <<"threw">>
columnOf(resp, Column(_)) ==
  LET c == rowsOfBody(resp.body)
      IsTruthy(v) == v # <<>>
  IN  IF c.threw \/ ~c.isArray \/ HasNullRow(c.list) THEN <<"threw">>
      ELSE SelectSeq(MapSeq(Column, c.list), IsTruthy)

getFilterOptionsQuery(resps) ==
  tryCatch(
      LET OemOf(r) == r.oem
          CityOf(r) == r.city
          BodyTypeOf(r) == r.body_type
          FuelTypeOf(r) == r.fuel_type
          f == [ oems |-> columnOf(resps[1], OemOf),
                 cities |-> columnOf(resps[2], CityOf),
                 bodyTypes |-> columnOf(resps[3], BodyTypeOf),
                 fuelTypes |-> columnOf(resps[4], FuelTypeOf) ]
      IN  IF \E k \in 1..4 : resps[k].net = "error" THEN Threw
          ELSE IF \E k \in 1..4 : ~resps[k].ok THEN FallbackFilters
          ELSE IF \E k \in 1..4 : resps[k].body.shape \in {"unparsable", "null"}
            THEN Threw
          ELSE IF <<"threw">> \in {f.oems, f.cities, f.bodyTypes, f.fuelTypes}
            THEN Threw
          ELSE RFilters(f),
    FallbackFilters)

getCarDetailsQuery(resp) ==
  tryCatch(
      IF resp.net = "error" THEN Threw
      ELSE IF ~resp.ok THEN RNull
      ELSE LET c == rowsOfBody(resp.body)
           IN  IF c.threw THEN Threw
               ELSE IF c.isArray /\ Len(c.list) = 0 THEN RNull
               ELSE IF ~c.isArray \/ HasNullRow(c.list) THEN Threw
               ELSE LET urls == [k \in 1..Len(c.list) |->
                              [c.list[k] EXCEPT !.id = c.list[1].id]]
                    IN  RCar([ row |-> [c.list[1] EXCEPT !.image_url = ""],
                               image_url |-> "",
                               images |-> imagesOfRows(urls, c.list[1].id, <<>>) ]),
    RNull)

\* ---- the calls as steps ---------------------------------------------------
Remote(resps, imgs) == [resps |-> resps, imgs |-> imgs]

ApiCall(fn, variant) == [fn |-> fn, variant |-> variant]

NoApiCall == ApiCall("none", "rest")

\* the image fetches a list call issues: one per car of a well-formed list
NumImageFetches(resp) ==
  LET c == carsOfBody(resp.body)
  IN  IF resp.net = "ok" /\ resp.ok /\ ~c.threw /\ ~HasNullRow(c.list)
        THEN Len(c.list) ELSE 0

\* the responses of the four filter queries
FilterResponses ==
  { NetworkError, NonOk,
    [net |-> "ok", ok |-> TRUE, body |-> Body("null", <<>>, FALSE, "undefined")],
    [net |-> "ok", ok |-> TRUE, body |-> Body("noResults", <<>>, FALSE, "undefined")],
    [net |-> "ok", ok |-> TRUE, body |-> Body("resultsNotArray", <<>>, FALSE, "undefined")],
    [net |-> "ok", ok |-> TRUE, body |-> Body("results", <<CarA>>, TRUE, "true")],
    [net |-> "ok", ok |-> TRUE, body |-> Body("results", <<CarB>>, TRUE, "true")],
    [net |-> "ok", ok |-> TRUE, body |-> Body("results", <<CarNull>>, TRUE, "true")] }

\* what the remote side answers to the fetches of one call: to a list call
\* and its image fetches, to a detail call and its image fetch, to the two
\* fetches of getCarByRowId and its image fetch, or to the four filter queries
Remotes ==
  UNION { { Remote(<<resp>>, imgs) :
              imgs \in [1..NumImageFetches(resp) -> ImgResponses] } :
          resp \in Responses }
  \cup { Remote(<<resp>>, <<img>>) : resp \in Responses, img \in ImgResponses }
  \cup { Remote(<<NonOk, resp>>, <<img>>) : resp \in Responses, img \in ImgResponses }
  \cup { Remote(resps, <<>>) : resps \in [1..4 -> FilterResponses] }

ApiInit ==
  /\ remote \in Remotes
  /\ apiCall = NoApiCall
  /\ apiRet = RNull

OneFetch == Len(remote.resps) = 1

CallGetAllUsedCars ==
  /\ OneFetch
  /\ Len(remote.imgs) = NumImageFetches(remote.resps[1])
  /\ apiCall' = ApiCall("getAllUsedCars", "rest")
  /\ apiRet' = getAllUsedCars(remote.resps[1], remote.imgs)
  /\ UNCHANGED <<notApi, remote>>

CallGetCars ==
  /\ OneFetch
  /\ Len(remote.imgs) = NumImageFetches(remote.resps[1])
  /\ apiCall' = ApiCall("getCars", "rest")
  /\ apiRet' = getCars(remote.resps[1], remote.imgs)
  /\ UNCHANGED <<notApi, remote>>

CallGetFilterOptions ==
  /\ OneFetch
  /\ apiCall' = ApiCall("getFilterOptions", "rest")
  /\ apiRet' = getFilterOptions(remote.resps[1])
  /\ UNCHANGED <<notApi, remote>>

CallGetCarDetails ==
  /\ OneFetch
  /\ Len(remote.imgs) = 1
  /\ apiCall' = ApiCall("getCarDetails", "rest")
  /\ apiRet' = getCarDetails(remote.resps[1], remote.imgs[1])
  /\ UNCHANGED <<notApi, remote>>

CallGetCarByRowId ==
  /\ Len(remote.imgs) = 1
  /\ Len(remote.resps) \in {1, 2}
  /\ Len(remote.resps) = 1 => remote.resps[1] # NonOk
  /\ apiCall' = ApiCall("getCarByRowId", "rest")
  /\ apiRet' = getCarByRowId(remote.resps[1],
                             remote.resps[Len(remote.resps)], remote.imgs[1])
  /\ UNCHANGED <<notApi, remote>>

CallGetAllUsedCarsQuery ==
  /\ OneFetch
  /\ apiCall' = ApiCall("getAllUsedCars", "query")
  /\ apiRet' = getAllUsedCarsQuery(remote.resps[1])
  /\ UNCHANGED <<notApi, remote>>

CallGetCarsQuery ==
  /\ OneFetch
  /\ apiCall' = ApiCall("getCars", "query")
  /\ apiRet' = getCarsQuery(remote.resps[1])
  /\ UNCHANGED <<notApi, remote>>

CallGetFilterOptionsQuery ==
  /\ Len(remote.resps) = 4
  /\ apiCall' = ApiCall("getFilterOptions", "query")
  /\ apiRet' = getFilterOptionsQuery(remote.resps)
  /\ UNCHANGED <<notApi, remote>>

CallGetCarDetailsQuery ==
  /\ OneFetch
  /\ apiCall' = ApiCall("getCarDetails", "query")
  /\ apiRet' = getCarDetailsQuery(remote.resps[1])
  /\ UNCHANGED <<notApi, remote>>

ApiNext ==
  \/ CallGetAllUsedCars
  \/ CallGetCars
  \/ CallGetFilterOptions
  \/ CallGetCarDetails
  \/ CallGetCarByRowId
  \/ CallGetAllUsedCarsQuery
  \/ CallGetCarsQuery
  \/ CallGetFilterOptionsQuery
  \/ CallGetCarDetailsQuery

\* ------------------------------------------------------------------------
\* The contact-form POST handler: src/pages/rest/contact_form.ts
\* ------------------------------------------------------------------------
MaxRequests == 2

\* an absent JSON field
Missing == "<undefined>"

Truthy(v) == v \notin {Missing, ""}

\* v || null
OrNull(v) == IF Truthy(v) THEN v ELSE "<null>"

\* a request body: "unparsable" (request.json() throws), the JSON null, or
\* an object with its fields
ContactBody(shape, name, phone_number, email, car_name, location, is_sell) ==
  [ shape |-> shape, name |-> name, phone_number |-> phone_number,
    email |-> email, car_name |-> car_name, location |-> location,
    is_sell |-> is_sell ]

ContactBodies ==
  { ContactBody(sh, Missing, Missing, Missing, Missing, Missing, Missing) :
      sh \in {"unparsable", "null"} }
  \cup { ContactBody("object", n, p, Missing, Missing, "", Missing) :
           n \in {Missing, "", "Ann"}, p \in {Missing, "", "98"} }
  \cup { ContactBody("object", n, p, "a@b", "Audi", "Pune", "true") :
           n \in {Missing, "", "Ann"}, p \in {Missing, "", "98"} }

\* locals.runtime?.env?.used_cars_db: absent, or a binding whose run()
\* succeeds or throws
Requests ==
  { [body |-> b, db |-> d] : b \in ContactBodies, d \in {"absent", "ok", "failing"} }

NoData ==
  [ name |-> Missing, phone_number |-> Missing, email |-> Missing,
    car_name |-> Missing, location |-> Missing, is_sell |-> FALSE ]

JsonResponse(status, error, message, data) ==
  [status |-> status, error |-> error, message |-> message, data |-> data]

NoResponse == JsonResponse(0, Missing, Missing, NoData)

NoRequest ==
  [ body |-> ContactBody("none", Missing, Missing, Missing, Missing, Missing,
                         Missing),
    db |-> "absent" ]

\* .bind(name, phone_number, email || null, ..., is_sell ? 1 : 0)
boundRow(b) ==
  [ name |-> b.name, phone_number |-> b.phone_number, email |-> OrNull(b.email),
    car_name |-> OrNull(b.car_name), location |-> OrNull(b.location),
    is_sell |-> IF Truthy(b.is_sell) THEN 1 ELSE 0 ]

createdData(b) ==
  [ name |-> b.name, phone_number |-> b.phone_number, email |-> OrNull(b.email),
    car_name |-> OrNull(b.car_name), location |-> OrNull(b.location),
    is_sell |-> Truthy(b.is_sell) ]

\* variant: the catch block answers as for a bad request
CaughtError_badRequest ==
  JsonResponse(400, "Failed to submit contact form", "<error.message>", NoData)

CaughtError ==
  JsonResponse(500, "Failed to submit contact form", "<error.message>", NoData)

\* variant: the database binding is looked up before the fields are checked
handle_databaseFirst(req) ==
  LET b == req.body
  IN  IF b.shape \in {"unparsable", "null"}
        THEN [response |-> CaughtError, ran |-> FALSE, rows |-> <<>>]
      ELSE IF req.db = "absent"
        THEN [ response |-> JsonResponse(500, "Database not available", Missing, NoData),
               ran |-> FALSE, rows |-> <<>> ]
      ELSE IF req.db = "failing"
        THEN [response |-> CaughtError, ran |-> TRUE, rows |-> <<>>]
      ELSE IF ~Truthy(b.name) \/ ~Truthy(b.phone_number)
        THEN [ response |-> JsonResponse(400, "Name and phone number are required",
                                         Missing, NoData),
               ran |-> TRUE, rows |-> <<boundRow(b)>> ]
      ELSE [ response |-> JsonResponse(201, Missing, "Resource created successfully",
                                       createdData(b)),
             ran |-> TRUE, rows |-> <<boundRow(b)>> ]

\* the handler on one request: its response, whether the INSERT was run, and
\* the rows the INSERT added
handle(req) ==
  LET b == req.body
  IN  IF b.shape \in {"unparsable", "null"}
        THEN [response |-> CaughtError, ran |-> FALSE, rows |-> <<>>]
      ELSE IF ~Truthy(b.name) \/ ~Truthy(b.phone_number)
        THEN [ response |-> JsonResponse(400, "Name and phone number are required",
                                         Missing, NoData),
               ran |-> FALSE, rows |-> <<>> ]
      ELSE IF req.db = "absent"
        THEN [ response |-> JsonResponse(500, "Database not available", Missing, NoData),
               ran |-> FALSE, rows |-> <<>> ]
      ELSE IF req.db = "failing"
        THEN [response |-> CaughtError, ran |-> TRUE, rows |-> <<>>]
      ELSE [ response |-> JsonResponse(201, Missing, "Resource created successfully",
                                       createdData(b)),
             ran |-> TRUE, rows |-> <<boundRow(b)>> ]

ContactInit ==
  /\ contact_form = <<>>
  /\ inserts = 0
  /\ handled = 0
  /\ request = NoRequest
  /\ response = NoResponse

POST(req) ==
  /\ handled < MaxRequests
  /\ LET h == handle(req)
     IN  /\ response' = h.response
         /\ inserts' = IF h.ran THEN inserts + 1 ELSE inserts
         /\ contact_form' = contact_form \o h.rows
  /\ request' = req
  /\ handled' = handled + 1
  /\ UNCHANGED notContact

ContactNext == \E req \in Requests : POST(req)

\* ------------------------------------------------------------------------
\* The image-migration script (robots.txt.ts 129-303): main, ensureUploaded
\* and the pool that runs it.  The records of a city file are modelled by
\* their imageUrl; perFile holds the same records as the files, which no
\* one else writes during a run.
\* ------------------------------------------------------------------------
MaxFileRecords == 1

MaxRuns == 2

\* readdir order of src/data/cities
MigFileNames == <<"f1", "f2">>

SourceUrls == {"s1", "s2"}

\* a record without a usable imageUrl (absent, empty or not a string)
NoUrl == "none"

\* the bodies the source URLs can serve, and their object keys
\* `google/${hash}.${ext}`: sha256 keeps different bodies apart
keyOf(body) == IF body = "b1" THEN "k1" ELSE "k2"

ObjectKeys == {"k1", "k2"}

\* `${publicBase}/${key}`
outUrlOf(key) == IF key = "k1" THEN "pub/k1" ELSE "pub/k2"

\* cache[u], "" where the cache has no entry
cacheGet(c, u) == IF u \in DOMAIN c THEN c[u] ELSE ""

\* the urls Set of main: http imageUrls outside the public base, in
\* insertion order over the files and their records
RECURSIVE addUrls(_, _)
addUrls(records, acc) ==
  IF records = <<>> THEN acc
  ELSE LET u == Head(records)
       IN  addUrls(Tail(records),
                   IF u \in SourceUrls /\ u \notin SeqRange(acc)
                     THEN Append(acc, u) ELSE acc)

uniqueUrlsOf(files) ==
  addUrls(files[MigFileNames[2]], addUrls(files[MigFileNames[1]], <<>>))

\* uniqueUrls.filter((u) => !cache[u])
toProcessOf(urls, c) == SelectSeq(urls, LAMBDA u : cacheGet(c, u) = "")

\* variant: the script goes on in every mode
returnsEarly_never(apply, dryRunFetch) == FALSE

\* if (!apply && !dryRunFetch) return
returnsEarly(apply, dryRunFetch) == ~apply /\ ~dryRunFetch

\* the rewrite loop of main over the records of one file
rewriteRecords(records, c) ==
  [k \in DOMAIN records |->
     LET u == records[k]
         mapped == cacheGet(c, u)
     IN  IF u = NoUrl \/ mapped = "" THEN u ELSE mapped]

NoEffects == [downloads |-> 0, heads |-> 0, cacheWrites |-> 0, cityWrites |-> 0]

MigInit ==
  /\ mig_files \in [SeqRange(MigFileNames) ->
                      UNION { [1..n -> SourceUrls \cup {NoUrl}] :
                              n \in 0..MaxFileRecords }]
  /\ mig_cacheFile = [u \in SourceUrls |-> ""]
  /\ mig_bucket \in SUBSET ObjectKeys
  /\ mig_content \in {[s1 |-> "b1", s2 |-> "b1"], [s1 |-> "b1", s2 |-> "b2"]}
  /\ mig_concurrency \in {1, 2}
  /\ mig_run = [apply |-> FALSE, dryRunFetch |-> FALSE, n |-> 0]
  /\ mig_pc = "idle"
  /\ mig_cache = [u \in SourceUrls |-> ""]
  /\ mig_toProcess = <<>>
  /\ mig_i = 0
  /\ mig_w = <<>>
  /\ mig_effects = NoEffects
  /\ mig_puts = [k \in ObjectKeys |-> 0]
  /\ mig_found = {}
  /\ mig_uploaded = {}
  /\ mig_rewritten = {}

\* const idx = i++; if (idx >= items.length) return; worker(items[idx]):
\* ensureUploaded issues its fetch (its cache test at line 211 cannot
\* succeed: toProcess holds each uncached URL once)
migTakeNext(w) ==
  /\ mig_i' = mig_i + 1
  /\ mig_w' = [mig_w EXCEPT ![w] =
                 [st |-> IF mig_i >= Len(mig_toProcess) THEN "returned"
                         ELSE "fetching",
                  idx |-> mig_i]]

\* main up to the call of mapWithConcurrency, whose pool workers start
\* synchronously
migMain(apply, dryRunFetch) ==
  /\ mig_pc = "idle"
  /\ mig_run.n < MaxRuns
  /\ LET toProcess == toProcessOf(uniqueUrlsOf(mig_files), mig_cacheFile)
         early == returnsEarly(apply, dryRunFetch)
     IN  /\ mig_toProcess' = toProcess
         /\ mig_pc' = IF early THEN "idle" ELSE "pool"
         /\ mig_w' = IF early THEN <<>>
                     ELSE [w \in 1..mig_concurrency |->
                             [st |-> IF w - 1 >= Len(toProcess) THEN "returned"
                                     ELSE "fetching",
                              idx |-> w - 1]]
         /\ mig_i' = IF early THEN 0 ELSE mig_concurrency
  /\ mig_run' = [apply |-> apply, dryRunFetch |-> dryRunFetch, n |-> mig_run.n + 1]
  /\ mig_cache' = mig_cacheFile
  /\ mig_effects' = NoEffects
  /\ mig_puts' = [k \in ObjectKeys |-> 0]
  /\ UNCHANGED <<notMig, mig_files, mig_cacheFile, mig_bucket, mig_content,
                 mig_concurrency, mig_found, mig_uploaded, mig_rewritten>>

\* ensureUploaded 213-237: the download settles; okay = FALSE is a non-OK
\* answer or an empty body
migFetchSettles(w, okay) ==
  /\ mig_pc = "pool"
  /\ w \in DOMAIN mig_w
  /\ mig_w[w].st = "fetching"
  /\ LET u == mig_toProcess[mig_w[w].idx + 1]
         key == keyOf(mig_content[u])
     IN  /\ mig_effects' =
              [mig_effects EXCEPT !.downloads = @ + 1,
                                  !.heads = IF okay /\ mig_run.apply THEN @ + 1 ELSE @]
         /\ IF ~okay
              THEN migTakeNext(w) /\ UNCHANGED mig_cache
              ELSE IF ~mig_run.apply
                THEN /\ mig_cache' = [mig_cache EXCEPT ![u] = outUrlOf(key)]
                     /\ migTakeNext(w)
                ELSE /\ mig_w' = [mig_w EXCEPT ![w].st = "heading"]
                     /\ UNCHANGED <<mig_cache, mig_i>>
  /\ UNCHANGED <<notMig, mig_files, mig_cacheFile, mig_bucket, mig_content,
                 mig_concurrency, mig_run, mig_pc, mig_toProcess, mig_puts,
                 mig_found, mig_uploaded, mig_rewritten>>

\* ensureUploaded 240-252: the HEAD settles; it succeeds when the bucket
\* holds the key and the request got through, else the PUT is issued
migHeadSettles(w, gotThrough) ==
  /\ mig_pc = "pool"
  /\ w \in DOMAIN mig_w
  /\ mig_w[w].st = "heading"
  /\ LET u == mig_toProcess[mig_w[w].idx + 1]
         key == keyOf(mig_content[u])
     IN  IF key \in mig_bucket /\ gotThrough
           THEN /\ mig_found' = mig_found \cup {key}
                /\ mig_cache' = [mig_cache EXCEPT ![u] = outUrlOf(key)]
                /\ migTakeNext(w)
                /\ UNCHANGED mig_puts
           ELSE /\ mig_puts' = [mig_puts EXCEPT ![key] = @ + 1]
                /\ mig_w' = [mig_w EXCEPT ![w].st = "putting"]
                /\ UNCHANGED <<mig_found, mig_cache, mig_i>>
  /\ UNCHANGED <<notMig, mig_files, mig_cacheFile, mig_bucket, mig_content,
                 mig_concurrency, mig_run, mig_pc, mig_toProcess, mig_effects,
                 mig_uploaded, mig_rewritten>>

\* ensureUploaded 243-255: the PUT settles
migPutSettles(w, okay) ==
  /\ mig_pc = "pool"
  /\ w \in DOMAIN mig_w
  /\ mig_w[w].st = "putting"
  /\ LET u == mig_toProcess[mig_w[w].idx + 1]
         key == keyOf(mig_content[u])
     IN  IF okay
           THEN /\ mig_bucket' = mig_bucket \cup {key}
                /\ mig_uploaded' = mig_uploaded \cup {key}
                /\ mig_cache' = [mig_cache EXCEPT ![u] = outUrlOf(key)]
           ELSE UNCHANGED <<mig_bucket, mig_uploaded, mig_cache>>
  /\ migTakeNext(w)
  /\ UNCHANGED <<notMig, mig_files, mig_cacheFile, mig_content,
                 mig_concurrency, mig_run, mig_pc, mig_toProcess, mig_effects,
                 mig_puts, mig_found, mig_rewritten>>

\* main 272-302, once Promise.all has resolved: the cache file is written
\* and, with --apply, the records are rewritten and changed files written
migMainFinish ==
  /\ mig_pc = "pool"
  /\ \A w \in DOMAIN mig_w : mig_w[w].st = "returned"
  /\ mig_cacheFile' = mig_cache
  /\ LET rewritten == [f \in DOMAIN mig_files |->
                         rewriteRecords(mig_files[f], mig_cache)]
         changed == {f \in DOMAIN mig_files : rewritten[f] # mig_files[f]}
     IN  IF ~mig_run.apply
           THEN /\ mig_effects' = [mig_effects EXCEPT !.cacheWrites = @ + 1]
                /\ UNCHANGED <<mig_files, mig_rewritten>>
           ELSE /\ mig_effects' =
                     [mig_effects EXCEPT !.cacheWrites = @ + 1,
                                         !.cityWrites = @ + Cardinality(changed)]
                /\ mig_files' = rewritten
                /\ mig_rewritten' = mig_rewritten \cup
                     UNION { { rewritten[f][k] :
                                 k \in {j \in DOMAIN rewritten[f] :
                                          rewritten[f][j] # mig_files[f][j]} } :
                             f \in changed }
  /\ mig_pc' = "idle"
  /\ UNCHANGED <<notMig, mig_bucket, mig_content, mig_concurrency, mig_run,
                 mig_cache, mig_toProcess, mig_i, mig_w, mig_puts, mig_found,
                 mig_uploaded>>

MigNext ==
  \/ \E apply \in BOOLEAN, dryRunFetch \in BOOLEAN : migMain(apply, dryRunFetch)
  \/ \E w \in 1..2 : \E okay \in BOOLEAN : migFetchSettles(w, okay)
  \/ \E w \in 1..2 : \E gotThrough \in BOOLEAN : migHeadSettles(w, gotThrough)
  \/ \E w \in 1..2 : \E okay \in BOOLEAN : migPutSettles(w, okay)
  \/ migMainFinish


\* ------------------------------------------------------------------------
\* The city-cover script (city-covers-from-unsplash-to-r2.mjs 130-328)
\* ------------------------------------------------------------------------
\* the city files of src/data/cities without their extension, readdir order
CitySlugs == <<"goa", "pune">>

\* a cover or cache URL that no run of the model produced
StaleUrl == "stale"

\* the object key is `covers/cities/${citySlug}/${hash}.${ext}`: one key per
\* city, named here by its slug; its URL is `${publicBase}/${key}`
coverUrlOf(key) == IF key = "goa" THEN "pub/covers/goa" ELSE "pub/covers/pune"

\* .filter((slug) => overwrite || !covers[slug]?.url)
\* .filter((slug) => !cache[slug] || overwrite): a cover stored as a
\* string has no url property
isTarget(overwrite, cover, cached) == overwrite \/ cached = ""

\* variant: the cache always wins
keepsCover_never(overwrite, cover) == FALSE

\* if (!overwrite && covers[slug]) continue
keepsCover(overwrite, cover) == ~overwrite /\ Truthy(cover)

\* the loop of main over Object.entries(cache)
updateCovers(covers, c, overwrite) ==
  [slug \in DOMAIN covers |->
     IF c[slug] = "" \/ keepsCover(overwrite, covers[slug])
       THEN covers[slug] ELSE c[slug]]

CovInit ==
  /\ cov_covers \in [SeqRange(CitySlugs) -> {Missing, "", StaleUrl}]
  /\ cov_cacheFile \in [SeqRange(CitySlugs) -> {"", StaleUrl}]
  /\ cov_bucket \in SUBSET SeqRange(CitySlugs)
  /\ cov_concurrency \in {1, 2}
  /\ cov_run = [apply |-> FALSE, overwrite |-> FALSE, n |-> 0]
  /\ cov_pc = "idle"
  /\ cov_cache = [slug \in SeqRange(CitySlugs) |-> ""]
  /\ cov_targets = <<>>
  /\ cov_i = 0
  /\ cov_w = <<>>
  /\ cov_found = {}
  /\ cov_uploaded = {}
  /\ cov_written = {}

\* const idx = i++; if (idx >= items.length) return; worker(items[idx])
covTakeNext(w) ==
  /\ cov_i' = cov_i + 1
  /\ cov_w' = [cov_w EXCEPT ![w] =
                 [st |-> IF cov_i >= Len(cov_targets) THEN "returned"
                         ELSE "fetching",
                  idx |-> cov_i]]

\* main up to the call of mapWithConcurrency
covMain(apply, overwrite) ==
  /\ cov_pc = "idle"
  /\ cov_run.n < MaxRuns
  /\ LET targets == SelectSeq(CitySlugs,
                      LAMBDA slug : isTarget(overwrite, cov_covers[slug],
                                             cov_cacheFile[slug]))
     IN  /\ cov_targets' = targets
         /\ cov_w' = [w \in 1..cov_concurrency |->
                        [st |-> IF w - 1 >= Len(targets) THEN "returned"
                                ELSE "fetching",
                         idx |-> w - 1]]
  /\ cov_i' = cov_concurrency
  /\ cov_pc' = "pool"
  /\ cov_run' = [apply |-> apply, overwrite |-> overwrite, n |-> cov_run.n + 1]
  /\ cov_cache' = cov_cacheFile
  /\ UNCHANGED <<notCov, cov_covers, cov_cacheFile, cov_bucket,
                 cov_concurrency, cov_found, cov_uploaded, cov_written>>

\* the callback up to line 248: the city file is read, the photo searched
\* and downloaded; okay = FALSE is any failure on the way
covFetchSettles(w, okay) ==
  /\ cov_pc = "pool"
  /\ w \in DOMAIN cov_w
  /\ cov_w[w].st = "fetching"
  /\ LET slug == cov_targets[cov_w[w].idx + 1]
     IN  IF ~okay
           THEN covTakeNext(w) /\ UNCHANGED cov_cache
           ELSE IF ~cov_run.apply
             THEN /\ cov_cache' = [cov_cache EXCEPT ![slug] = coverUrlOf(slug)]
                  /\ covTakeNext(w)
             ELSE /\ cov_w' = [cov_w EXCEPT ![w].st = "heading"]
                  /\ UNCHANGED <<cov_cache, cov_i>>
  /\ UNCHANGED <<notCov, cov_covers, cov_cacheFile, cov_bucket,
                 cov_concurrency, cov_run, cov_pc, cov_targets, cov_found,
                 cov_uploaded, cov_written>>

\* ensureUploadedFromUrl 250-264: the HEAD settles and, when it failed,
\* the PUT; putOkay = FALSE is a PUT that throws.  The targets of a run are
\* different slugs, so no other pool worker uses this key in between.
covHeadPutSettles(w, gotThrough, putOkay) ==
  /\ cov_pc = "pool"
  /\ w \in DOMAIN cov_w
  /\ cov_w[w].st = "heading"
  /\ LET slug == cov_targets[cov_w[w].idx + 1]
         found == slug \in cov_bucket /\ gotThrough
     IN  /\ cov_found' = IF found THEN cov_found \cup {slug} ELSE cov_found
         /\ cov_uploaded' = IF ~found /\ putOkay THEN cov_uploaded \cup {slug}
                            ELSE cov_uploaded
         /\ cov_bucket' = IF ~found /\ putOkay THEN cov_bucket \cup {slug}
                          ELSE cov_bucket
         /\ cov_cache' = IF found \/ putOkay
                           THEN [cov_cache EXCEPT ![slug] = coverUrlOf(slug)]
                           ELSE cov_cache
  /\ covTakeNext(w)
  /\ UNCHANGED <<notCov, cov_covers, cov_cacheFile, cov_concurrency, cov_run,
                 cov_pc, cov_targets, cov_written>>

\* main 303-327, once Promise.all has resolved
covMainFinish ==
  /\ cov_pc = "pool"
  /\ \A w \in DOMAIN cov_w : cov_w[w].st = "returned"
  /\ cov_cacheFile' = cov_cache
  /\ IF ~cov_run.apply
       THEN UNCHANGED <<cov_covers, cov_written>>
       ELSE LET covers == updateCovers(cov_covers, cov_cache, cov_run.overwrite)
            IN  /\ cov_covers' = covers
                /\ cov_written' = cov_written \cup
                     { cov_cache[slug] :
                         slug \in { s \in DOMAIN covers :
                                      /\ cov_cache[s] # ""
                                      /\ ~keepsCover(cov_run.overwrite,
                                                     cov_covers[s]) } }
  /\ cov_pc' = "idle"
  /\ UNCHANGED <<notCov, cov_bucket, cov_concurrency, cov_run, cov_cache,
                 cov_targets, cov_i, cov_w, cov_found, cov_uploaded>>

CovNext ==
  \/ \E apply \in BOOLEAN, overwrite \in BOOLEAN : covMain(apply, overwrite)
  \/ \E w \in 1..2 : \E okay \in BOOLEAN : covFetchSettles(w, okay)
  \/ \E w \in 1..2 : \E gotThrough \in BOOLEAN, putOkay \in BOOLEAN :
       covHeadPutSettles(w, gotThrough, putOkay)
  \/ covMainFinish


\* ------------------------------------------------------------------------
\* The normalization script (city-covers-from-unsplash-to-r2.mjs 332-492)
\* ------------------------------------------------------------------------
Str_json == <<".", "j", "s", "o", "n">>

\* e.name.toLowerCase().endsWith('.json')
endsWithJson(name) ==
  /\ Len(name) >= 5
  /\ toLowerCase(SubSeq(name, Len(name) - 4, Len(name))) = Str_json

\* the empty string stands for undefined: the caller tests truthiness only
guessCityFromFilename(file) ==
  LET IsHyphenOrUnderscore(c) == c \in {"-", "_"}
      base == IF endsWithJson(file) THEN SubSeq(file, 1, Len(file) - 5) ELSE file
      first == split(base, ",")[1]
  IN  trim(replaceRuns(first, IsHyphenOrUnderscore, <<" ">>, FALSE))

MaxCityLen == 48

PostalDigits == 5

\* the empty string stands for undefined
inferCityFromAddress(address) ==
  LET a == safeText(address, <<>>)
      parts == SelectSeq(MapSeq(trim, split(a, ",")), LAMBDA p : p # <<>>)
      candidate == parts[Len(parts) - 2]
      \* /\d{5,6}/.test(candidate)
      hasPostal ==
        \E k \in 1..Len(candidate) :
          /\ k + PostalDigits - 1 <= Len(candidate)
          /\ \A j \in k..(k + PostalDigits - 1) : IsDigit(candidate[j])
  IN  IF a = <<>> THEN <<>>
      ELSE IF Len(parts) < 3 THEN <<>>
      ELSE IF hasPostal THEN <<>>
      ELSE IF Len(candidate) > MaxCityLen THEN <<>>
      ELSE candidate

\* variant: the file name is asked first
cityNameFromRecordOrFile_fileFirst(record, file) ==
  LET guessed == guessCityFromFilename(file)
  IN  IF guessed # <<>> THEN guessed ELSE <<"I", "n", "d", "i", "a">>

cityNameFromRecordOrFile(record, file) ==
  LET fromRecord == safeText(record.city, <<>>)
      inferred == inferCityFromAddress(record.address)
      guessed == guessCityFromFilename(file)
  IN  IF fromRecord # <<>> THEN fromRecord
      ELSE IF inferred # <<>> THEN inferred
      ELSE IF guessed # <<>> THEN guessed
      ELSE <<"I", "n", "d", "i", "a">>

dedupeKey(record, citySlug) ==
  LET placeId == safeText(record.placeId, <<>>)
  IN  IF placeId # <<>>
        THEN citySlug \o <<":">> \o placeId
        ELSE citySlug \o <<":">> \o safeText(record.title, <<>>)
                      \o <<":">> \o safeText(record.address, <<>>)

NoFile == [kind |-> "none", records |-> <<>>]

NoDir == <<"no such directory">>

InvalidJson == [kind |-> "invalid", records |-> <<>>]

NonArrayJson == [kind |-> "object", records |-> <<>>]

ArrayJson(records) == [kind |-> "array", records |-> records]

\* a file that a .json test does not match
OtherFile == [kind |-> "text", records |-> <<>>]

\* the input files, in readdir order
InputNames == << <<"a", "-", "b", ".", "j", "s", "o", "n">>,
                 <<"p", ",", "q", ".", "J", "S", "O", "N">> >>

NzRecordPool ==
  << [ title |-> <<"B">>, placeId |-> <<"P", "1">>, address |-> NotAString,
       city |-> <<"P", "u", "n", "e">> ],
     [ title |-> <<"A">>, placeId |-> <<" ", "P", "2">>, address |-> <<"x">>,
       city |-> <<"p", "u", "n", "e", " ">> ],
     [ title |-> <<"C">>, placeId |-> NotAString,
       address |-> <<"x", ",", "G", "o", "a", ",", "G", "A", ",", "I", "n">>,
       city |-> NotAString ],
     [ title |-> NotAString, placeId |-> NotAString, address |-> NotAString,
       city |-> NotAString ] >>

InputContents ==
  { InvalidJson, NonArrayJson,
    ArrayJson(<<NzRecordPool[1], NzRecordPool[4]>>),
    ArrayJson(<<NzRecordPool[3], NzRecordPool[2]>>) }

InputDirs == [SeqRange(InputNames) -> InputContents \cup {NoFile}]

\* the names a city file can have, in the model: the slugs the inputs can
\* yield, a stale one, and a file that is not JSON
CityNames ==
  { <<"p", "u", "n", "e", ".", "j", "s", "o", "n">>,
    <<"g", "o", "a", ".", "j", "s", "o", "n">>,
    <<"a", "-", "b", ".", "j", "s", "o", "n">>,
    <<"p", ".", "j", "s", "o", "n">>,
    <<"o", "l", "d", ".", "j", "s", "o", "n">>,
    <<"n", "o", "t", "e", "s">> }

StaleCities ==
  { [name \in CityNames |-> NoFile],
    [name \in CityNames |->
       IF name = <<"o", "l", "d", ".", "j", "s", "o", "n">> THEN ArrayJson(<<>>)
       ELSE NoFile],
    [name \in CityNames |->
       IF name = <<"p", "u", "n", "e", ".", "j", "s", "o", "n">>
         THEN ArrayJson(<<NzRecordPool[4]>>)
       ELSE IF name = <<"n", "o", "t", "e", "s">> THEN OtherFile
       ELSE NoFile] }

NzInit ==
  /\ nz_src \in InputDirs
  /\ nz_raw \in InputDirs \cup {NoDir}
  /\ nz_cities \in StaleCities
  /\ nz_run = [n |-> 0, inputDir |-> "none", moved |-> FALSE]

\* variant: the input is always src/data
inputDirOf_alwaysSrc(rawIsDirectory) == "src"

\* let inputDir = srcDir; ... if (st.isDirectory()) inputDir = rawDir
inputDirOf(rawIsDirectory) == IF rawIsDirectory THEN "raw" ELSE "src"

\* the jsonFiles of a directory
jsonFilesOf(dir) ==
  SelectSeq(InputNames, LAMBDA f : dir[f] # NoFile /\ endsWithJson(f))

\* the loop over the files and their records: the grouped Map as a list of
\* [citySlug, records] in insertion order
RECURSIVE groupRecords(_, _, _, _)
groupRecords(file, records, seen, grouped) ==
  IF records = <<>> THEN [seen |-> seen, grouped |-> grouped]
  ELSE LET r == Head(records)
           cityName == cityNameFromRecordOrFile(r, file)
           citySlug == slugify(cityName)
           key == dedupeKey(r, citySlug)
           at == { k \in 1..Len(grouped) : grouped[k].citySlug = citySlug }
       IN  IF citySlug = <<>> \/ key \in seen
             THEN groupRecords(file, Tail(records), seen, grouped)
             ELSE groupRecords(file, Tail(records), seen \cup {key},
                    IF at = {}
                      THEN Append(grouped, [citySlug |-> citySlug, records |-> <<r>>])
                      ELSE [k \in 1..Len(grouped) |->
                              IF k \in at
                                THEN [grouped[k] EXCEPT !.records = Append(@, r)]
                                ELSE grouped[k]])

RECURSIVE groupFiles(_, _, _)
groupFiles(files, dir, acc) ==
  IF files = <<>> THEN acc.grouped
  ELSE LET content == dir[Head(files)]
       IN  groupFiles(Tail(files), dir,
                      IF content.kind # "array" THEN acc
                      ELSE groupRecords(Head(files), content.records,
                                        acc.seen, acc.grouped))

\* g.records.sort((a, b) => safeText(a?.title).localeCompare(safeText(b?.title)))
cmpTitles(a, b) == localeCompare(safeText(a.title, <<>>), safeText(b.title, <<>>))

\* src/data/cities after the cleaning and the writing of the city files
citiesOfRun(cities, grouped) ==
  [name \in CityNames |->
     LET at == { k \in 1..Len(grouped) : grouped[k].citySlug \o Str_json = name }
     IN  IF at # {}
           THEN ArrayJson(sort(grouped[CHOOSE k \in at : TRUE].records, cmpTitles))
         ELSE IF endsWithJson(name) THEN NoFile
         ELSE cities[name]]

normalizeMain ==
  /\ nz_run.n < MaxRuns
  /\ LET \* await ensureDir(rawDir)
         raw == IF nz_raw = NoDir THEN [f \in SeqRange(InputNames) |-> NoFile]
                ELSE nz_raw
         inputDir == inputDirOf(raw # NoDir)
         dir == IF inputDir = "raw" THEN raw ELSE nz_src
         jsonFiles == jsonFilesOf(dir)
         grouped == groupFiles(jsonFiles, dir, [seen |-> {}, grouped |-> <<>>])
         moves == inputDir = "src" /\ jsonFiles # <<>>
     IN  /\ nz_cities' = citiesOfRun(nz_cities, grouped)
         /\ nz_raw' = IF moves
                        THEN [f \in SeqRange(InputNames) |->
                                IF f \in SeqRange(jsonFiles) THEN nz_src[f] ELSE raw[f]]
                        ELSE raw
         /\ nz_src' = IF moves
                        THEN [f \in SeqRange(InputNames) |->
                                IF f \in SeqRange(jsonFiles) THEN NoFile ELSE nz_src[f]]
                        ELSE nz_src
         /\ nz_run' = [n |-> nz_run.n + 1, inputDir |-> inputDir, moved |-> moves]
  /\ UNCHANGED notNz

NzNext == normalizeMain


\* ------------------------------------------------------------------------
\* The search-indexing script (part_003)
\* ------------------------------------------------------------------------
MaxLocs == 3

\* const batchSize = 100, scaled down so that a run of the model has
\* several batches
batchSize == 2

\* the text between <loc> and </loc> of the elements a sitemap can have
LocTexts == { <<"u1">>, <<" ", "u1", " ">>, <<"u2">>, <<" ">> }

SitemapUrls == { <<"u1">>, <<"u2">> }

Sitemaps == UNION { [1..n -> LocTexts] : n \in 0..MaxLocs }

\* parseSitemap: the trimmed, non-empty loc texts in document order
parseSitemap(xmlContent) ==
  SelectSeq(MapSeq(trim, xmlContent), LAMBDA url : url # <<>>)

\* getSubmittedUrls: the urls that have a row
getSubmittedUrls(db) == { u \in DOMAIN db : db[u] # Missing }

\* for (let i = 0; i < urlsToSubmit.length; i += batchSize) batches.push(...)
RECURSIVE batchesOf(_)
batchesOf(urls) ==
  IF urls = <<>> THEN <<>>
  ELSE IF Len(urls) <= batchSize THEN <<urls>>
  ELSE <<SubSeq(urls, 1, batchSize)>> \o
       batchesOf(SubSeq(urls, batchSize + 1, Len(urls)))

\* variant: a URL is submitted once per run
urlsToSubmitOf_unique(allUrls, submittedUrls) ==
  LET RECURSIVE uniq(_, _)
      uniq(us, acc) ==
        IF us = <<>> THEN acc
        ELSE uniq(Tail(us),
                  IF Head(us) \in submittedUrls \/ Head(us) \in SeqRange(acc)
                    THEN acc ELSE Append(acc, Head(us)))
  IN  uniq(allUrls, <<>>)

\* allUrls.filter((url) => !submittedUrls.has(url))
urlsToSubmitOf(allUrls, submittedUrls) ==
  SelectSeq(allUrls, LAMBDA url : url \notin submittedUrls)

\* markUrlSubmitted for every result of a batch, in order
RECURSIVE markBatch(_, _, _, _)
markBatch(db, batch, succeeded, k) ==
  IF k > Len(batch) THEN db
  ELSE markBatch([db EXCEPT ![batch[k]] =
                    IF k \in succeeded THEN "submitted" ELSE "error"],
                 batch, succeeded, k + 1)

\* the results of a batch with success: successCount++ for each
countSuccess(batch, succeeded) == Cardinality(succeeded)

IxInit ==
  /\ ix_db \in [SitemapUrls -> {Missing, "submitted", "error"}]
  /\ ix_pc = "idle"
  /\ ix_batches = <<>>
  /\ ix_published = [u \in SitemapUrls |-> 0]
  /\ ix_republished = FALSE
  /\ ix_runs = 0
  /\ ix_urlsToSubmit = <<>>
  /\ ix_successCount = 0
  /\ ix_errorCount = 0
  /\ ix_accepted = [u \in SitemapUrls |-> 0]

\* main 151-216: the run up to the batch loop; it ends there when the
\* sitemap cannot be fetched, when nothing is left to submit or when the
\* authentication fails
indexingMain(xmlContent, fetched, authenticated) ==
  /\ ix_pc = "idle"
  /\ ix_runs < MaxRuns
  /\ ix_runs' = ix_runs + 1
  /\ LET urlsToSubmit == urlsToSubmitOf(parseSitemap(xmlContent),
                                        getSubmittedUrls(ix_db))
     IN  IF ~fetched \/ urlsToSubmit = <<>> \/ ~authenticated
           THEN /\ ix_urlsToSubmit' = <<>>
                /\ UNCHANGED <<ix_pc, ix_batches>>
           ELSE /\ ix_pc' = "submitting"
                /\ ix_batches' = batchesOf(urlsToSubmit)
                /\ ix_urlsToSubmit' = urlsToSubmit
  /\ ix_successCount' = 0
  /\ ix_errorCount' = 0
  /\ ix_accepted' = [u \in SitemapUrls |-> 0]
  /\ UNCHANGED <<notIx, ix_db, ix_published, ix_republished>>

\* one round of the batch loop 218-253: submitBatch publishes every URL of
\* the batch, then each result is recorded; succeeded are the positions of
\* the batch whose publish call went through
indexingBatch(succeeded) ==
  /\ ix_pc = "submitting"
  /\ LET batch == Head(ix_batches)
     IN  /\ succeeded \subseteq 1..Len(batch)
         /\ ix_published' =
              [u \in SitemapUrls |->
                 ix_published[u] + Cardinality({k \in 1..Len(batch) : batch[k] = u})]
         /\ ix_republished' =
              (ix_republished \/ \E k \in 1..Len(batch) : ix_db[batch[k]] # Missing)
         /\ ix_db' = markBatch(ix_db, batch, succeeded, 1)
         /\ ix_successCount' = ix_successCount + countSuccess(batch, succeeded)
         /\ ix_errorCount' =
              ix_errorCount + (Len(batch) - countSuccess(batch, succeeded))
         /\ ix_accepted' =
              [u \in SitemapUrls |->
                 ix_accepted[u] + Cardinality({k \in succeeded : batch[k] = u})]
  /\ ix_batches' = Tail(ix_batches)
  /\ ix_pc' = IF Tail(ix_batches) = <<>> THEN "idle" ELSE "submitting"
  /\ UNCHANGED <<notIx, ix_runs, ix_urlsToSubmit>>

IxNext ==
  \/ \E xmlContent \in Sitemaps, fetched \in BOOLEAN, authenticated \in BOOLEAN :
       indexingMain(xmlContent, fetched, authenticated)
  \/ \E succeeded \in SUBSET (1..batchSize) : indexingBatch(succeeded)


\* ------------------------------------------------------------------------
\* The cars migration (part_002): main, the upload pool, insertCarIntoD1 and
\* the used_cars table of the schema (part_004).  A car is modelled by its
\* used_car_id (0: absent), its used_car_sku_id ("": absent) and its primary
\* image pi ("": none); the connection test and the creation of the tables
\* that precede the uploads are taken to succeed.
\* ------------------------------------------------------------------------
MaxCars == 2

CarPool == [used_car_id : 0..2, used_car_sku_id : {"", "A"}, pi : {"", "i1", "i2"}]

\* the rows a database can hold before the run
OldRows == { {}, {[used_car_id |-> 2, used_car_sku_id |-> "B"]} }

\* extractImages, for a car without gallery
extractImages(car) == IF car.pi = "" THEN <<>> ELSE <<car.pi>>

\* imageUrlMap: used_car_id -> images, the last car with images wins
RECURSIVE imageUrlMapOf(_, _)
imageUrlMapOf(cars, acc) ==
  IF cars = <<>> THEN acc
  ELSE LET car == Head(cars)
       IN  imageUrlMapOf(Tail(cars),
             IF car.used_car_id # 0 /\ extractImages(car) # <<>>
               THEN [acc EXCEPT ![car.used_car_id] = extractImages(car)]
               ELSE acc)

\* allImageUrls in insertion order
RECURSIVE allImageUrlsOf(_, _)
allImageUrlsOf(cars, acc) ==
  IF cars = <<>> THEN acc
  ELSE LET car == Head(cars)
           images == extractImages(car)
       IN  allImageUrlsOf(Tail(cars),
             IF car.used_car_id # 0 /\ images # <<>> /\ images[1] \notin SeqRange(acc)
               THEN acc \o images ELSE acc)

\* originalImages.map((url) => cache[url] || url) for the car at position k
uploadedImagesOf(cars, k, cache) ==
  LET originalImages == imageUrlMapOf(cars, [id \in 0..2 |-> <<>>])[cars[k].used_car_id]
  IN  [n \in 1..Len(originalImages) |->
         [url |-> originalImages[n], uploaded |-> originalImages[n] \in cache]]

\* the position of the next car of the insert loop from k on, 0 when the
\* loop is over: if (!car.used_car_id) continue
nextCar(cars, k) ==
  LET rest == { n \in k..Len(cars) : cars[n].used_car_id # 0 }
  IN  IF rest = {} THEN 0 ELSE CHOOSE n \in rest : \A m \in rest : n <= m

\* INSERT OR REPLACE INTO used_cars under the schema's UNIQUE constraints on
\* used_car_id and used_car_sku_id: the rows in conflict are deleted
replacedRows(rows, car) ==
  { r \in rows : \/ r.used_car_id = car.used_car_id
                 \/ r.used_car_sku_id = car.used_car_sku_id }

insertOrReplace(rows, car) ==
  (rows \ replacedRows(rows, car)) \cup
  {[used_car_id |-> car.used_car_id, used_car_sku_id |-> car.used_car_sku_id]}

\* variant: the insert loop starts as soon as one pool worker has returned
poolSettled_anyReturned(w) == \E n \in DOMAIN w : w[n].st = "returned"

\* await mapWithConcurrency(...): every pool worker has returned
poolSettled(w) == \A n \in DOMAIN w : w[n].st = "returned"

CmInit ==
  /\ cm_cars \in UNION { [1..n -> CarPool] : n \in 0..MaxCars }
  /\ cm_concurrency \in {1, 2}
  /\ cm_pc = "init"
  /\ cm_urls = <<>>
  /\ cm_cache = {}
  /\ cm_i = 0
  /\ cm_w = <<>>
  /\ cm_k = 0
  /\ cm_q = "none"
  /\ cm_used_cars \in OldRows
  /\ cm_car_images = {}
  /\ cm_failed = FALSE

\* main 716-905: up to the call of mapWithConcurrency; without --apply the
\* run ends after collecting the image URLs
cmMain(apply) ==
  /\ cm_pc = "init"
  /\ LET urlsToUpload == allImageUrlsOf(cm_cars, <<>>)
     IN  IF ~apply
           THEN /\ cm_pc' = "done"
                /\ UNCHANGED <<cm_urls, cm_i, cm_w>>
           ELSE /\ cm_pc' = "uploading"
                /\ cm_urls' = urlsToUpload
                /\ cm_i' = cm_concurrency
                /\ cm_w' = [w \in 1..cm_concurrency |->
                              [st |-> IF w - 1 >= Len(urlsToUpload) THEN "returned"
                                      ELSE "uploading",
                               idx |-> w - 1]]
  /\ UNCHANGED <<notCm, cm_cars, cm_concurrency, cm_cache, cm_k, cm_q,
                 cm_used_cars, cm_car_images, cm_failed>>

\* the callback 894-905: ensureUploaded settles for the URL of pool worker
\* w, which then takes the next index
cmUploadSettles(w, okay) ==
  /\ cm_pc = "uploading"
  /\ w \in DOMAIN cm_w
  /\ cm_w[w].st = "uploading"
  /\ cm_cache' = IF okay THEN cm_cache \cup {cm_urls[cm_w[w].idx + 1]} ELSE cm_cache
  /\ cm_i' = cm_i + 1
  /\ cm_w' = [cm_w EXCEPT ![w] =
                [st |-> IF cm_i >= Len(cm_urls) THEN "returned" ELSE "uploading",
                 idx |-> cm_i]]
  /\ UNCHANGED <<notCm, cm_cars, cm_concurrency, cm_pc, cm_urls, cm_k, cm_q,
                 cm_used_cars, cm_car_images, cm_failed>>

\* main 907-932: the pool has resolved, the cache is saved and the insert
\* loop issues the INSERT OR REPLACE of its first car
cmStartInserts ==
  /\ cm_pc = "uploading"
  /\ poolSettled(cm_w)
  /\ LET k == nextCar(cm_cars, 1)
     IN  /\ cm_k' = k
         /\ cm_q' = IF k = 0 THEN "none" ELSE "car"
         /\ cm_pc' = IF k = 0 THEN "done" ELSE "inserting"
  /\ UNCHANGED <<notCm, cm_cars, cm_concurrency, cm_urls, cm_cache, cm_i, cm_w,
                 cm_used_cars, cm_car_images, cm_failed>>

\* insertCarIntoD1 623-670 and the loop 925-950: the query in flight
\* settles and the next query is issued, of this car or of the next one
cmQuerySettles(okay) ==
  /\ cm_pc = "inserting"
  /\ cm_q # "none"
  /\ LET car == cm_cars[cm_k]
         imageUrls == uploadedImagesOf(cm_cars, cm_k, cm_cache)
         removed == { r.used_car_id : r \in replacedRows(cm_used_cars, car) }
         carDone == \/ ~okay
                    \/ cm_q = "images"
                    \/ cm_q = "car" /\ imageUrls = <<>>
         k == nextCar(cm_cars, cm_k + 1)
     IN  /\ cm_used_cars' = IF okay /\ cm_q = "car"
                              THEN insertOrReplace(cm_used_cars, car)
                              ELSE cm_used_cars
         /\ cm_car_images' =
              IF ~okay THEN cm_car_images
              ELSE IF cm_q = "car"
                \* FOREIGN KEY ... ON DELETE CASCADE
                THEN { r \in cm_car_images : r.used_car_id \notin removed }
              ELSE IF cm_q = "delete"
                THEN { r \in cm_car_images : r.used_car_id # car.used_car_id }
              ELSE cm_car_images \cup
                   { [used_car_id |-> car.used_car_id, image_url |-> imageUrls[n],
                      image_order |-> n - 1] : n \in 1..Len(imageUrls) }
         /\ cm_failed' = (cm_failed \/ ~okay)
         /\ cm_k' = IF carDone THEN k ELSE cm_k
         /\ cm_q' = IF carDone THEN (IF k = 0 THEN "none" ELSE "car")
                    ELSE IF cm_q = "car" THEN "delete" ELSE "images"
         /\ cm_pc' = IF carDone /\ k = 0 THEN "done" ELSE "inserting"
  /\ UNCHANGED <<notCm, cm_cars, cm_concurrency, cm_urls, cm_cache, cm_i, cm_w>>

CmNext ==
  \/ \E apply \in BOOLEAN : cmMain(apply)
  \/ \E w \in 1..2 : \E okay \in BOOLEAN : cmUploadSettles(w, okay)
  \/ cmStartInserts
  \/ \E okay \in BOOLEAN : cmQuerySettles(okay)


\* ------------------------------------------------------------------------
\* Car slugs: src/lib/api.ts generateCarSlug, over slugify of slug.ts
\* ------------------------------------------------------------------------
MaxInputLen == 3
MaxCarId == 11

\* Number.prototype.toString() of an integer
RECURSIVE toString(_)
toString(n) ==
  IF n < 0 THEN <<"-">> \o toString(0 - n)
  ELSE IF n < 10 THEN <<DigitSeq[n + 1]>>
  ELSE toString(n \div 10) \o <<DigitSeq[(n % 10) + 1]>>

\* Array.prototype.join(sep)
RECURSIVE join(_, _)
join(parts, sep) ==
  IF parts = <<>> THEN <<>>
  ELSE IF Len(parts) = 1 THEN parts[1]
  ELSE parts[1] \o sep \o join(Tail(parts), sep)

\* variant: the parts are joined without a separator
generateCarSlug_joinedBare(car) ==
  LET parts == <<car.oem, car.model, toString(car.myear), car.city,
                 toString(car.id)>>
  IN  slugify(join(parts, <<>>))

generateCarSlug(car) ==
  LET parts == <<car.oem, car.model, toString(car.myear), car.city,
                 toString(car.id)>>
  IN  slugify(join(parts, <<" ">>))

\* the characters the inputs of slugify are made of
SlugChars == {"a", "B", "1", " ", "-", "_", "'", "\"", "e_acute", "acute"}

RECURSIVE StringsUpTo(_)
StringsUpTo(n) ==
  IF n = 0 THEN {<<>>}
  ELSE LET shorter == StringsUpTo(n - 1)
       IN  shorter \cup { Append(s, c) : s \in shorter, c \in SlugChars }

SlugInputs == StringsUpTo(MaxInputLen)

SlugCars ==
  [ oem : {<<"K", "i", "a">>},
    model : {<<>>, <<"x", " ", "1">>},
    myear : {2024},
    city : {<<>>, <<"G", "o", "a">>, <<"G", "o", "a", " ", "1">>, <<"1", "-">>},
    id : 0..MaxCarId ]

SlInit ==
  /\ sl_pc = "idle"
  /\ sl_input = <<>>
  /\ sl_slug = <<>>
  /\ sl_again = <<>>
  /\ sl_cars = <<>>
  /\ sl_carSlugs = <<>>

\* slugify(input), and slugify of the result
slugifyCall(input) ==
  /\ sl_pc = "idle"
  /\ sl_pc' = "slug"
  /\ sl_input' = input
  /\ sl_slug' = slugify(input)
  /\ sl_again' = slugify(slugify(input))
  /\ UNCHANGED <<notSl, sl_cars, sl_carSlugs>>

\* generateCarSlug for two cars of a listing, carA before carB
generateCarSlugCall(carA, carB) ==
  /\ sl_pc = "idle"
  /\ carA.id < carB.id
  /\ sl_pc' = "car"
  /\ sl_cars' = <<carA, carB>>
  /\ sl_carSlugs' = <<generateCarSlug(carA), generateCarSlug(carB)>>
  /\ UNCHANGED <<notSl, sl_input, sl_slug, sl_again>>

SlNext ==
  \/ \E input \in SlugInputs : slugifyCall(input)
  \/ \E carA \in SlugCars, carB \in SlugCars : generateCarSlugCall(carA, carB)

\* ------------------------------------------------------------------------
\* The ContactForm component: part_000 (ContactForm.tsx) 3-312
\* ------------------------------------------------------------------------
MaxVisits == 2
MaxSubmits == 1

EmptyForm ==
  [name |-> "", phone_number |-> "", email |-> "", car_name |-> "", location |-> ""]

FormFields == DOMAIN EmptyForm

\* what the user types into a field
FieldValues == {"", "x"}

\* message === null
NoMessage == [type |-> "none", text |-> ""]

NoPending == [at |-> "none", ok |-> FALSE, body |-> "none", visit |-> 0]

\* the response bodies: not JSON, the JSON null, the object the endpoint
\* sends on success, an object with an error field, any other object
ResponseBodies == {"non-json", "null", "created", "error", "other"}

\* how fetch settles: rejected with an error message (possibly empty), or
\* resolved with a response
FetchOutcomes ==
  { [rejected |-> TRUE, reason |-> m, ok |-> FALSE, body |-> "none"] :
      m \in {"Failed to fetch", ""} }
  \cup { [rejected |-> FALSE, reason |-> "", ok |-> o, body |-> b] :
           o \in BOOLEAN, b \in ResponseBodies }

\* the catch block 81-86
errorMessage(reason) ==
  [ type |-> "error",
    text |-> IF Truthy(reason) THEN reason
             ELSE "Something went wrong. Please try again." ]

\* lines 64-80 on a response: whether the success branch is taken, and the
\* message of the error thrown otherwise
submitResult(isOk, body) ==
  IF body = "non-json" THEN [success |-> FALSE, reason |-> "<SyntaxError>"]
  ELSE IF body = "null" THEN [success |-> FALSE, reason |-> "<TypeError>"]
  ELSE IF isOk /\ body = "created" THEN [success |-> TRUE, reason |-> ""]
  ELSE [ success |-> FALSE,
         reason |-> IF body = "error" THEN "<result.error>"
                    ELSE "Failed to submit form" ]

\* variant: isSubmitting is reset on the success path only
isSubmittingWhenSettled_successOnly(succeeded) == ~succeeded

\* the finally block 87-89
isSubmittingWhenSettled(succeeded) == FALSE

FormInit ==
  /\ cf_currentStep = 1
  /\ cf_isSell = FALSE
  /\ cf_formData = EmptyForm
  /\ cf_message = NoMessage
  /\ cf_isSubmitting = FALSE
  /\ cf_pending = NoPending
  /\ cf_timers = <<>>
  /\ cf_visit = 0
  /\ cf_submits = 0
  /\ cf_event = [kind |-> "none", visit |-> 0]

\* the Buy and Sell buttons of step 1
handleActionSelect(action) ==
  /\ cf_currentStep = 1
  /\ cf_visit < MaxVisits
  /\ cf_isSell' = (action = "sell")
  /\ cf_currentStep' = 2
  /\ cf_visit' = cf_visit + 1
  /\ cf_event' = [kind |-> "select", visit |-> cf_visit + 1]
  /\ UNCHANGED <<notForm, cf_formData, cf_message, cf_isSubmitting, cf_pending,
                 cf_timers, cf_submits>>

\* the Back button of step 2
handleBack ==
  /\ cf_currentStep = 2
  /\ cf_currentStep' = 1
  /\ cf_message' = NoMessage
  /\ cf_event' = [kind |-> "back", visit |-> cf_visit]
  /\ UNCHANGED <<notForm, cf_isSell, cf_formData, cf_isSubmitting, cf_pending,
                 cf_timers, cf_visit, cf_submits>>

\* typing into a field of step 2
handleInputChange(field, value) ==
  /\ cf_currentStep = 2
  /\ cf_formData' = [cf_formData EXCEPT ![field] = value]
  /\ cf_event' = [kind |-> "input", visit |-> cf_visit]
  /\ UNCHANGED <<notForm, cf_currentStep, cf_isSell, cf_message, cf_isSubmitting,
                 cf_pending, cf_timers, cf_visit, cf_submits>>

\* handleSubmit up to the await of fetch; the form submits at step 2 with
\* the required fields filled and the submit button enabled
handleSubmit ==
  /\ cf_currentStep = 2
  /\ ~cf_isSubmitting
  /\ cf_formData.name # "" /\ cf_formData.phone_number # ""
  /\ cf_submits < MaxSubmits
  /\ cf_submits' = cf_submits + 1
  /\ cf_isSubmitting' = TRUE
  /\ cf_message' = NoMessage
  /\ cf_pending' = [at |-> "fetch", ok |-> FALSE, body |-> "none", visit |-> cf_visit]
  /\ cf_event' = [kind |-> "submit", visit |-> cf_visit]
  /\ UNCHANGED <<notForm, cf_currentStep, cf_isSell, cf_formData, cf_timers,
                 cf_visit>>

\* the fetch settles: a rejection goes through catch and finally, a response
\* leads to the await of response.json()
fetchSettles(outcome) ==
  /\ cf_pending.at = "fetch"
  /\ IF outcome.rejected
       THEN /\ cf_message' = errorMessage(outcome.reason)
            /\ cf_isSubmitting' = isSubmittingWhenSettled(FALSE)
            /\ cf_pending' = NoPending
            /\ cf_event' = [kind |-> "failed", visit |-> cf_pending.visit]
       ELSE /\ cf_pending' = [cf_pending EXCEPT !.at = "json", !.ok = outcome.ok,
                                                !.body = outcome.body]
            /\ cf_event' = [kind |-> "response", visit |-> cf_pending.visit]
            /\ UNCHANGED <<cf_message, cf_isSubmitting>>
  /\ UNCHANGED <<notForm, cf_currentStep, cf_isSell, cf_formData, cf_timers,
                 cf_visit, cf_submits>>

\* response.json() settles: lines 64-89
jsonSettles ==
  /\ cf_pending.at = "json"
  /\ LET r == submitResult(cf_pending.ok, cf_pending.body)
     IN  /\ IF r.success
              THEN /\ cf_message' =
                        [ type |-> "success",
                          text |-> "Thank you! We will contact you soon." ]
                   /\ cf_formData' = EmptyForm
                   /\ cf_timers' = Append(cf_timers, cf_pending.visit)
                   /\ cf_event' = [kind |-> "succeeded", visit |-> cf_pending.visit]
              ELSE /\ cf_message' = errorMessage(r.reason)
                   /\ cf_event' = [kind |-> "failed", visit |-> cf_pending.visit]
                   /\ UNCHANGED <<cf_formData, cf_timers>>
         /\ cf_isSubmitting' = isSubmittingWhenSettled(r.success)
  /\ cf_pending' = NoPending
  /\ UNCHANGED <<notForm, cf_currentStep, cf_isSell, cf_visit, cf_submits>>

\* the callback of setTimeout(() => handleBack(), 2000) runs
timerFires ==
  /\ cf_timers # <<>>
  /\ cf_timers' = Tail(cf_timers)
  /\ cf_currentStep' = 1
  /\ cf_message' = NoMessage
  /\ cf_event' = [kind |-> "timer", visit |-> Head(cf_timers)]
  /\ UNCHANGED <<notForm, cf_isSell, cf_formData, cf_isSubmitting, cf_pending,
                 cf_visit, cf_submits>>

FormNext ==
  \/ \E action \in {"buy", "sell"} : handleActionSelect(action)
  \/ handleBack
  \/ \E field \in FormFields, value \in FieldValues : handleInputChange(field, value)
  \/ handleSubmit
  \/ \E outcome \in FetchOutcomes : fetchSettles(outcome)
  \/ jsonSettles
  \/ timerFires

\* ------------------------------------------------------------------------
\* Specifications: one per component, the other components stay idle
\* ------------------------------------------------------------------------
DealersIdle ==
  /\ dataModules = <<>>
  /\ _allDealers = Undefined
  /\ _cities = Undefined
  /\ _dealersByCity = Undefined
  /\ ret = NoCall

PoolIdle ==
  /\ items = <<>>
  /\ concurrency = 1
  /\ catching = FALSE
  /\ poolpc = "idle"
  /\ i = 0
  /\ results = <<>>
  /\ wst = <<>>
  /\ allState = "pending"
  /\ handed = <<>>
  /\ returnedVal = <<>>
  /\ inFlight = 0
  /\ ok = 0
  /\ fail = 0
  /\ counted = <<>>

ApiIdle ==
  /\ remote = Remote(<<>>, <<>>)
  /\ apiCall = NoApiCall
  /\ apiRet = RNull

MigIdle ==
  /\ mig_files = [f \in SeqRange(MigFileNames) |-> <<>>]
  /\ mig_cacheFile = [u \in SourceUrls |-> ""]
  /\ mig_bucket = {}
  /\ mig_content = [s1 |-> "b1", s2 |-> "b1"]
  /\ mig_concurrency = 1
  /\ mig_run = [apply |-> FALSE, dryRunFetch |-> FALSE, n |-> 0]
  /\ mig_pc = "off"
  /\ mig_cache = [u \in SourceUrls |-> ""]
  /\ mig_toProcess = <<>>
  /\ mig_i = 0
  /\ mig_w = <<>>
  /\ mig_effects = NoEffects
  /\ mig_puts = [k \in ObjectKeys |-> 0]
  /\ mig_found = {}
  /\ mig_uploaded = {}
  /\ mig_rewritten = {}

CovIdle ==
  /\ cov_covers = [slug \in SeqRange(CitySlugs) |-> Missing]
  /\ cov_cacheFile = [slug \in SeqRange(CitySlugs) |-> ""]
  /\ cov_bucket = {}
  /\ cov_concurrency = 1
  /\ cov_run = [apply |-> FALSE, overwrite |-> FALSE, n |-> 0]
  /\ cov_pc = "off"
  /\ cov_cache = [slug \in SeqRange(CitySlugs) |-> ""]
  /\ cov_targets = <<>>
  /\ cov_i = 0
  /\ cov_w = <<>>
  /\ cov_found = {}
  /\ cov_uploaded = {}
  /\ cov_written = {}

NzIdle ==
  /\ nz_src = [f \in SeqRange(InputNames) |-> NoFile]
  /\ nz_raw = NoDir
  /\ nz_cities = [name \in CityNames |-> NoFile]
  /\ nz_run = [n |-> 0, inputDir |-> "off", moved |-> FALSE]

IxIdle ==
  /\ ix_db = [u \in SitemapUrls |-> Missing]
  /\ ix_pc = "off"
  /\ ix_batches = <<>>
  /\ ix_published = [u \in SitemapUrls |-> 0]
  /\ ix_republished = FALSE
  /\ ix_runs = 0
  /\ ix_urlsToSubmit = <<>>
  /\ ix_successCount = 0
  /\ ix_errorCount = 0
  /\ ix_accepted = [u \in SitemapUrls |-> 0]

CmIdle ==
  /\ cm_cars = <<>>
  /\ cm_concurrency = 1
  /\ cm_pc = "off"
  /\ cm_urls = <<>>
  /\ cm_cache = {}
  /\ cm_i = 0
  /\ cm_w = <<>>
  /\ cm_k = 0
  /\ cm_q = "none"
  /\ cm_used_cars = {}
  /\ cm_car_images = {}
  /\ cm_failed = FALSE

SlIdle ==
  /\ sl_pc = "off"
  /\ sl_input = <<>>
  /\ sl_slug = <<>>
  /\ sl_again = <<>>
  /\ sl_cars = <<>>
  /\ sl_carSlugs = <<>>

InitDealers ==
  /\ DealersInit
  /\ PoolIdle
  /\ ApiIdle
  /\ ContactInit
  /\ MigIdle
  /\ CovIdle
  /\ NzIdle
  /\ IxIdle
  /\ CmIdle
  /\ SlIdle
  /\ FormInit

InitPool ==
  /\ PoolInit
  /\ DealersIdle
  /\ ApiIdle
  /\ ContactInit
  /\ MigIdle
  /\ CovIdle
  /\ NzIdle
  /\ IxIdle
  /\ CmIdle
  /\ SlIdle
  /\ FormInit

InitApi ==
  /\ ApiInit
  /\ DealersIdle
  /\ PoolIdle
  /\ ContactInit
  /\ MigIdle
  /\ CovIdle
  /\ NzIdle
  /\ IxIdle
  /\ CmIdle
  /\ SlIdle
  /\ FormInit

InitContact ==
  /\ ContactInit
  /\ DealersIdle
  /\ PoolIdle
  /\ ApiIdle
  /\ MigIdle
  /\ CovIdle
  /\ NzIdle
  /\ IxIdle
  /\ CmIdle
  /\ SlIdle
  /\ FormInit

InitMigrate ==
  /\ MigInit
  /\ DealersIdle
  /\ PoolIdle
  /\ ApiIdle
  /\ ContactInit
  /\ CovIdle
  /\ NzIdle
  /\ IxIdle
  /\ CmIdle
  /\ SlIdle
  /\ FormInit

InitCovers ==
  /\ CovInit
  /\ DealersIdle
  /\ PoolIdle
  /\ ApiIdle
  /\ ContactInit
  /\ MigIdle
  /\ NzIdle
  /\ IxIdle
  /\ CmIdle
  /\ SlIdle
  /\ FormInit

InitNormalize ==
  /\ NzInit
  /\ DealersIdle
  /\ PoolIdle
  /\ ApiIdle
  /\ ContactInit
  /\ MigIdle
  /\ CovIdle
  /\ IxIdle
  /\ CmIdle
  /\ SlIdle
  /\ FormInit

InitIndexing ==
  /\ IxInit
  /\ DealersIdle
  /\ PoolIdle
  /\ ApiIdle
  /\ ContactInit
  /\ MigIdle
  /\ CovIdle
  /\ NzIdle
  /\ CmIdle
  /\ SlIdle
  /\ FormInit

InitCars ==
  /\ CmInit
  /\ DealersIdle
  /\ PoolIdle
  /\ ApiIdle
  /\ ContactInit
  /\ MigIdle
  /\ CovIdle
  /\ NzIdle
  /\ IxIdle
  /\ SlIdle
  /\ FormInit

InitSlug ==
  /\ SlInit
  /\ DealersIdle
  /\ PoolIdle
  /\ ApiIdle
  /\ ContactInit
  /\ MigIdle
  /\ CovIdle
  /\ NzIdle
  /\ IxIdle
  /\ CmIdle
  /\ FormInit

InitForm ==
  /\ FormInit
  /\ DealersIdle
  /\ PoolIdle
  /\ ApiIdle
  /\ ContactInit
  /\ MigIdle
  /\ CovIdle
  /\ NzIdle
  /\ IxIdle
  /\ CmIdle
  /\ SlIdle

SpecDealers == InitDealers /\ [][DealersNext]_vars

SpecPool == InitPool /\ [][PoolNext]_vars

SpecApi == InitApi /\ [][ApiNext]_vars

SpecContact == InitContact /\ [][ContactNext]_vars

SpecMigrate == InitMigrate /\ [][MigNext]_vars

SpecCovers == InitCovers /\ [][CovNext]_vars

SpecNormalize == InitNormalize /\ [][NzNext]_vars

SpecIndexing == InitIndexing /\ [][IxNext]_vars

SpecCars == InitCars /\ [][CmNext]_vars

SpecSlug == InitSlug /\ [][SlNext]_vars

SpecForm == InitForm /\ [][FormNext]_vars

\* the contact form with every request settling in the end
SpecFormLive ==
  /\ InitForm
  /\ [][FormNext]_vars
  /\ WF_vars(\E outcome \in FetchOutcomes : fetchSettles(outcome))
  /\ WF_vars(jsonSettles)

\* ------------------------------------------------------------------------
\* Properties of the dealer index
\* ------------------------------------------------------------------------
Candidates == entriesOf(dataModules)

\* the de-duplication key as a value: the city slug with the placeId when the
\* record has one, otherwise with the title and the address
KeyOf(d) ==
  IF safeText(d.placeId, <<>>) # <<>>
    THEN <<d.citySlug, "placeId", safeText(d.placeId, <<>>)>>
    ELSE <<d.citySlug, "title",
           IF safeText(d.title, <<>>) # <<>> THEN safeText(d.title, <<>>)
           ELSE Str_Dealer,
           safeText(d.address, <<>>)>>

\* C1: no two entries of getAllDealers() have the same (citySlug,
\* dealerSlug) pair, and findDealer(d.citySlug, d.dealerSlug) returns d
\* itself for every dealer d of the list.
C1_DealersUniqueBySlug ==
  _allDealers.defined =>
    LET ds == _allDealers.value
    IN  /\ \A x, y \in 1..Len(ds) :
             (x # y) => <<ds[x].citySlug, ds[x].dealerSlug>>
                          # <<ds[y].citySlug, ds[y].dealerSlug>>
        /\ \A x \in 1..Len(ds) :
             (/\ ret.op = "findDealer"
              /\ ret.citySlug = ds[x].citySlug
              /\ ret.dealerSlug = ds[x].dealerSlug) => ret.dealers = <<ds[x]>>

\* C2: the result of getAllDealers() never holds two dealers with the same
\* de-duplication key, and a dealer that is kept is the first input record,
\* in file order then record order, among the records that share its key.
C2_Deduplicated ==
  _allDealers.defined =>
    LET ds == _allDealers.value
        cs == Candidates
    IN  /\ \A x, y \in 1..Len(ds) : (x # y) => KeyOf(ds[x]) # KeyOf(ds[y])
        /\ \A x \in 1..Len(ds) :
             \E k \in 1..Len(cs) :
               /\ cs[k].d = ds[x]
               /\ \A y \in 1..(k - 1) :
                    (cs[y].d.citySlug # <<>>) => KeyOf(cs[y].d) # KeyOf(ds[x])

\* two different records share a key and the earlier one was kept
C2_Witness ==
  /\ _allDealers.defined
  /\ \E x, y \in 1..Len(Candidates) :
       /\ x < y
       /\ Candidates[x].d.citySlug # <<>>
       /\ KeyOf(Candidates[x].d) = KeyOf(Candidates[y].d)
       /\ Candidates[x].d # Candidates[y].d
       /\ Candidates[x].d \in SeqRange(_allDealers.value)
       /\ Candidates[y].d \notin SeqRange(_allDealers.value)

\* C3: once a cache of the dealer index is filled, no call and no sitemap
\* generation changes it, and every call returns the cached content.
C3_LoadedOnceReadOnly ==
  [][ /\ _allDealers.defined => _allDealers' = _allDealers
      /\ _cities.defined => _cities' = _cities
      /\ _dealersByCity.defined => _dealersByCity' = _dealersByCity
      /\ (ret'.op \in {"getAllDealers", "sitemapGET"} /\ _allDealers.defined)
           => ret'.dealers = _allDealers.value
      /\ (ret'.op = "getCities" /\ _cities.defined)
           => ret'.cities = _cities.value
      /\ (ret'.op = "sitemapGET" /\ _cities.defined)
           => ret'.cities = slice0(_cities.value, TopCities)
      /\ (ret'.op = "getDealersByCitySlug" /\ _dealersByCity.defined)
           => ret'.dealers = mapGet(_dealersByCity.value, ret'.citySlug)
    ]_vars

\* a sitemap was generated over a filled index of two or more cities
C3_Witness ==
  /\ ret.op = "sitemapGET"
  /\ _dealersByCity.defined
  /\ Len(_cities.value) >= 2
  /\ Len(_allDealers.value) >= 2

CountIn(ds, citySlug) ==
  Cardinality({ k \in 1..Len(ds) : ds[k].citySlug = citySlug })

RECURSIVE SumCounts(_)
SumCounts(cs) == IF cs = <<>> THEN 0 ELSE Head(cs).count + SumCounts(Tail(cs))

\* C4: getCities() has exactly one entry per distinct citySlug of
\* getAllDealers(), each count is the number of dealers of that city (so
\* at least 1, summing to the number of dealers), and the entries are in
\* order of count descending, ties by cityName ascending.
C4_CitiesGroupDealers ==
  _cities.defined =>
    LET cs == _cities.value
        ds == _allDealers.value
    IN  /\ _allDealers.defined
        /\ { cs[k].citySlug : k \in 1..Len(cs) }
             = { ds[k].citySlug : k \in 1..Len(ds) }
        /\ \A x, y \in 1..Len(cs) : (x # y) => cs[x].citySlug # cs[y].citySlug
        /\ \A x \in 1..Len(cs) :
             /\ cs[x].count = CountIn(ds, cs[x].citySlug)
             /\ cs[x].count >= 1
        /\ SumCounts(cs) = Len(ds)
        /\ \A x \in 1..(Len(cs) - 1) :
             \/ cs[x].count > cs[x + 1].count
             \/ /\ cs[x].count = cs[x + 1].count
                /\ localeCompare(cs[x].cityName, cs[x + 1].cityName) <= 0

\* two cities with different counts, the larger one loaded last
C4_Witness ==
  /\ _cities.defined
  /\ Len(_cities.value) >= 2
  /\ _cities.value[1].count > _cities.value[2].count
  /\ _allDealers.value[1].citySlug # _cities.value[1].citySlug

\* ------------------------------------------------------------------------
\* Properties of mapWithConcurrency and of the batches
\* ------------------------------------------------------------------------
PoolWorkers == DOMAIN wst

AllStopped ==
  /\ poolpc = "running"
  /\ \A w \in PoolWorkers : wst[w].st \in {"returned", "rejected"}

\* C5 as stated: once every pool worker has stopped, every item of the
\* input was handed to the worker exactly once, and when the helper has
\* resolved results[k] is what the worker returned for items[k].
C5_EveryItemHandedOnce ==
  /\ \A k \in 1..Len(items) : handed[k] <= 1
  /\ AllStopped => \A k \in 1..Len(items) : handed[k] = 1
  /\ allState = "resolved" =>
       \A k \in 1..Len(items) : results[k] = returnedVal[k]

\* C5 amended: no item is ever handed to the worker twice; when the helper
\* resolves, every item was handed exactly once and results[k] is the value
\* the worker call returned for items[k]; an item is left unhanded only in
\* a run where every pool worker stopped on a rejection.
C5_HandedOnceWhenResolved ==
  /\ Len(results) = Len(items)
  /\ \A k \in 1..Len(items) : handed[k] <= 1
  /\ \A k \in 1..Len(items) : results[k] # Empty => results[k] = returnedVal[k]
  /\ allState = "resolved" =>
       \A k \in 1..Len(items) :
         /\ handed[k] = 1
         /\ results[k] = returnedVal[k]
         /\ results[k] # Empty
         /\ ~catching => results[k] = workerValue(items[k], k - 1)
  /\ (AllStopped /\ \E k \in 1..Len(items) : handed[k] = 0) =>
       \A w \in PoolWorkers : wst[w].st = "rejected"

\* a resolved run in which two pool workers shared three or more items
C5_Witness ==
  /\ allState = "resolved"
  /\ ~catching
  /\ concurrency = 2
  /\ Len(items) >= 3
  /\ \A k \in 1..Len(items) : results[k] = <<items[k], k - 1>>

\* C6: at every moment the number of worker calls started and not yet
\* settled is at most the concurrency argument.
C6_BoundedParallelism ==
  /\ inFlight <= concurrency
  /\ inFlight = Cardinality({w \in PoolWorkers : wst[w].st = "awaiting"})

\* the pool is saturated after a pool worker has come back for a next item
C6_Witness ==
  /\ concurrency >= 2
  /\ inFlight = concurrency
  /\ i > concurrency
  /\ Len(items) > concurrency

\* C7: when a worker call rejects the helper's promise rejects; the pool
\* worker that hit the rejection takes no further item, and every other
\* pool worker goes on until the input is exhausted.
C7_NoCancellation ==
  [][ /\ \A w \in DOMAIN wst' :
           /\ wst'[w].st = "rejected" => allState' = "rejected"
           /\ wst'[w].st = "returned" => wst'[w].idx >= Len(items)
      /\ \A w \in PoolWorkers :
           wst[w].st = "rejected" => wst'[w] = wst[w]
      /\ allState = "rejected" => allState' = "rejected"
    ]_vars

\* after the rejection of the first item another pool worker has processed
\* the rest of the input and stored its results
C7_Witness ==
  /\ allState = "rejected"
  /\ Len(items) >= 3
  /\ \E w \in PoolWorkers : wst[w].st = "rejected" /\ wst[w].idx = 0
  /\ \E w \in PoolWorkers : wst[w].st = "returned"
  /\ \A k \in 2..Len(items) : results[k] # Empty

\* C8: in a batch a failing URL does not stop the run, and when the batch
\* finishes ok + fail is the number of URLs selected, each counted once.
C8_SkipAndCountFailures ==
  catching =>
    /\ allState # "rejected"
    /\ \A w \in PoolWorkers : wst[w].st \notin {"failed", "rejected"}
    /\ \A k \in 1..Len(items) : counted[k] <= 1
    /\ allState = "resolved" =>
         /\ ok + fail = Len(items)
         /\ \A k \in 1..Len(items) : counted[k] = 1

\* a finished batch with successes after a failure
C8_Witness ==
  /\ catching
  /\ allState = "resolved"
  /\ Len(items) >= 3
  /\ fail >= 1
  /\ ok >= 2

\* ------------------------------------------------------------------------
\* Properties of the cars API client
\* ------------------------------------------------------------------------
Called == apiCall.fn # "none"

\* the value the catch clause of each call returns
FallbackOf(fn) ==
  CASE fn = "getAllUsedCars" -> RList(<<>>)
    [] fn = "getCars" -> FallbackCars
    [] fn = "getFilterOptions" -> FallbackFilters
    [] OTHER -> RNull

\* the responses the last call worked with: the four of the filter queries,
\* the final one of getCarByRowId, the only one of the others
ResponsesUsed ==
  IF apiCall.fn = "getCarByRowId"
    THEN {finalResponse(remote.resps[1], remote.resps[Len(remote.resps)])}
    ELSE SeqRange(remote.resps)

\* no response, a non-OK status, or a body that is no JSON value or is null
Unusable(resp) ==
  \/ resp.net = "error"
  \/ ~resp.ok
  \/ resp.body.shape \in {"unparsable", "null"}

\* a body that parses but has a results value that is no array, or a null
\* in the place of a row
Malformed(resp) ==
  /\ ~Unusable(resp)
  /\ \/ resp.body.shape = "resultsNotArray"
     \/ HasNullRow(resp.body.list)

\* in the REST list calls, the car of every row is there, and its images
\* are those its own image fetch gave, none if that fetch failed
ImagesPerCar ==
  (apiCall.variant = "rest" /\ apiCall.fn \in {"getAllUsedCars", "getCars"}
     /\ apiRet.kind \in {"list", "result"} /\ apiRet # FallbackOf(apiCall.fn)) =>
    /\ Len(apiRet.cars) = Len(remote.imgs)
    /\ \A k \in 1..Len(apiRet.cars) :
         /\ apiRet.cars[k].images = getCarImages(remote.imgs[k])
         /\ remote.imgs[k] \in FailedImgResponses => apiRet.cars[k].images = <<>>

\* C9 as stated: the client never rejects, and for every outcome of the
\* remote calls (non-OK status, network error, unparsable or malformed
\* body) each call resolves to its fallback value; a failed image fetch
\* gives that car an empty images list.
C9_FallbackOnEveryFailure ==
  Called =>
    /\ apiRet.kind # "threw"
    /\ (\E r \in ResponsesUsed : Unusable(r) \/ Malformed(r)) =>
         apiRet = FallbackOf(apiCall.fn)
    /\ ImagesPerCar

\* C9 amended: the client never rejects; on a network error, a non-OK
\* status or a body that is unparsable or null each call resolves to its
\* fallback value; a failed image fetch gives that car an empty images
\* list. A body that parses to something else is used as it is.
C9_NeverRejects ==
  Called =>
    /\ apiRet.kind # "threw"
    /\ (\E r \in ResponsesUsed : Unusable(r)) => apiRet = FallbackOf(apiCall.fn)
    /\ ImagesPerCar

\* getAllUsedCars over two cars: the image fetch of the first failed, the
\* second car has its images
C9_Witness ==
  /\ apiCall = ApiCall("getAllUsedCars", "rest")
  /\ apiRet.kind = "list"
  /\ Len(apiRet.cars) = 2
  /\ remote.imgs[1].kind = "neterr"
  /\ apiRet.cars[1].images = <<>>
  /\ apiRet.cars[2].images = <<"img1", "img2">>

\* ------------------------------------------------------------------------
\* Properties of the contact-form POST handler
\* ------------------------------------------------------------------------
FieldsMissing(req) ==
  /\ req.body.shape = "object"
  /\ ~Truthy(req.body.name) \/ ~Truthy(req.body.phone_number)

\* C10: a request whose name or phone_number is missing or empty is
\* answered with status 400 and 'Name and phone number are required', and
\* no INSERT is executed, whether or not the database binding is available.
C10_ValidatesBeforeDatabase ==
  [][ (handled' = handled + 1 /\ FieldsMissing(request')) =>
        /\ response'.status = 400
        /\ response'.error = "Name and phone number are required"
        /\ inserts' = inserts
        /\ contact_form' = contact_form
    ]_vars

\* a request without a phone number, sent after a stored one, with a working
\* database
C10_Witness ==
  /\ handled = 2
  /\ Len(contact_form) = 1
  /\ inserts = 1
  /\ request.db = "ok"
  /\ request.body.name = "Ann"
  /\ request.body.phone_number = Missing
  /\ response.status = 400

\* the INSERT of the last request was executed and succeeded
InsertSucceeded ==
  /\ inserts' = inserts + 1
  /\ Len(contact_form') = Len(contact_form) + 1

\* the INSERT of the last request was executed and threw
InsertThrew ==
  /\ inserts' = inserts + 1
  /\ contact_form' = contact_form

StatusOf201 ==
  /\ response'.status \in {201, 400, 500}
  /\ response'.status = 201 <=> InsertSucceeded
  /\ response'.status = 201 =>
       response'.message = "Resource created successfully"
  /\ (request'.body.shape = "unparsable" \/ InsertThrew) =>
       response'.status = 500
  /\ response'.status = 400 => FieldsMissing(request')

\* C21 as stated: every request gets a JSON response whose status is 201
\* with 'Resource created successfully' exactly when the INSERT was executed
\* and succeeded, 500 when the database binding is absent or when parsing the
\* body or the INSERT throws, and 400 only when name or phone_number is
\* missing.
C21_StatusByCause ==
  [][ handled' = handled + 1 =>
        /\ StatusOf201
        /\ request'.db = "absent" => response'.status = 500
    ]_vars

\* C21: as above, with status 500 for an absent database binding only when
\* the body parsed and carries both name and phone_number (the fields are
\* checked first).
C21_StatusByCauseAfterValidation ==
  [][ handled' = handled + 1 =>
        /\ StatusOf201
        /\ ( /\ request'.db = "absent"
             /\ request'.body.shape = "object"
             /\ ~FieldsMissing(request') ) => response'.status = 500
    ]_vars

\* a stored request, then a complete request whose INSERT throws
C21_Witness ==
  /\ handled = 2
  /\ Len(contact_form) = 1
  /\ inserts = 2
  /\ request.db = "failing"
  /\ request.body.name = "Ann"
  /\ request.body.phone_number = "98"
  /\ response.status = 500

\* ------------------------------------------------------------------------
\* Properties of the image-migration script
\* ------------------------------------------------------------------------
DefaultDryRun == mig_run.n > 0 /\ ~mig_run.apply /\ ~mig_run.dryRunFetch

\* C11: a run with neither --apply nor --dry-run-fetch downloads nothing,
\* sends no HEAD and no PUT, and writes neither the cache file nor a city file
C11_DefaultDryRunDoesNothing ==
  DefaultDryRun =>
    /\ mig_effects = NoEffects
    /\ \A k \in ObjectKeys : mig_puts[k] = 0
    /\ mig_pc = "idle"

\* a default dry run that had something to migrate
C11_Witness == DefaultDryRun /\ mig_toProcess # <<>>

\* C12: every public URL an --apply run wrote into a city file names an
\* object that an --apply run found in the bucket or uploaded
C12_RewrittenWereUploaded ==
  \A u \in mig_rewritten :
    \E k \in mig_found \cup mig_uploaded : outUrlOf(k) = u

\* C20: within one run at most one PUT is issued per object key
C20_OnePutPerKey == \A k \in ObjectKeys : mig_puts[k] <= 1


\* ------------------------------------------------------------------------
\* Properties of the city-cover script
\* ------------------------------------------------------------------------
\* C13: every URL of the script's own making that an --apply run assigned
\* in city-covers.json names an object that an --apply run found in the
\* bucket or uploaded
C13_WrittenWereUploaded ==
  \A u \in cov_written \ {StaleUrl} :
    \E k \in cov_found \cup cov_uploaded : coverUrlOf(k) = u

\* C14 as stated: without --overwrite no slug that had an entry in
\* city-covers.json gets another value or loses its entry
C14_EntriesKept ==
  [][~cov_run.overwrite =>
       \A slug \in DOMAIN cov_covers :
         cov_covers[slug] # Missing => cov_covers'[slug] = cov_covers[slug]]_vars

\* C14: without --overwrite no slug whose entry in city-covers.json is a
\* non-empty value gets another value, and no entry is removed
C14_CoversKept ==
  [][~cov_run.overwrite =>
       \A slug \in DOMAIN cov_covers :
         /\ Truthy(cov_covers[slug]) => cov_covers'[slug] = cov_covers[slug]
         /\ cov_covers[slug] # Missing => cov_covers'[slug] # Missing]_vars

\* an --apply run without --overwrite has ended with a cover in place for
\* which the cache holds another URL
C14_Witness ==
  /\ cov_pc = "idle"
  /\ cov_run.n > 0 /\ cov_run.apply /\ ~cov_run.overwrite
  /\ \E slug \in DOMAIN cov_covers :
       /\ cov_covers[slug] = StaleUrl
       /\ cov_cacheFile[slug] = coverUrlOf(slug)


\* C26: in a run without --overwrite no photo search or image download is
\* in flight for a city slug that has a cover in city-covers.json, whatever
\* the cache file holds for it.
C26_CoveredNotFetched ==
  (cov_pc = "pool" /\ ~cov_run.overwrite) =>
    \A w \in DOMAIN cov_w :
      cov_w[w].st = "fetching" =>
        ~Truthy(cov_covers[cov_targets[cov_w[w].idx + 1]])

\* ------------------------------------------------------------------------
\* Properties of the normalization script
\* ------------------------------------------------------------------------
PuneJson == <<"p", "u", "n", "e", ".", "j", "s", "o", "n">>

\* C15: a run that finds no src/data/raw takes the JSON files of src/data
\* as its input, writes their city files and moves them into src/data/raw
C15_FirstRunUsesSrc ==
  [][(nz_raw = NoDir /\ nz_run'.n = nz_run.n + 1 /\ jsonFilesOf(nz_src) # <<>>)
       => /\ nz_run'.inputDir = "src"
          /\ nz_cities' =
               citiesOfRun(nz_cities,
                           groupFiles(jsonFilesOf(nz_src), nz_src,
                                      [seen |-> {}, grouped |-> <<>>]))
          /\ \A f \in SeqRange(jsonFilesOf(nz_src)) :
               nz_src'[f] = NoFile /\ nz_raw'[f] = nz_src[f]]_vars

\* C16: a run that follows another run leaves src/data/cities as it was
C16_RerunIdempotent ==
  [][nz_run.n >= 1 => nz_cities' = nz_cities]_vars

\* a second run has ended with a city file of two records, sorted by title
C16_Witness ==
  /\ nz_run.n >= 2
  /\ nz_cities[PuneJson].kind = "array"
  /\ Len(nz_cities[PuneJson].records) = 2
  /\ nz_cities[PuneJson].records[1].title = <<"A">>


\* the key of import.meta.glob('../data/cities/*.json') for a city file
cityFilePath(name) ==
  <<".", ".", "/", "d", "a", "t", "a", "/", "c", "i", "t", "i", "e", "s", "/">>
    \o name

\* C27: after a run, the dealer index computes for every record of every
\* city file src/data/cities/<slug>.json the citySlug <slug>, whether the
\* city of the record came from its city field, from its address or from
\* the name of the input file.
C27_IndexAgreesOnCity ==
  nz_run.n >= 1 =>
    \A name \in CityNames :
      (endsWithJson(name) /\ nz_cities[name].kind = "array") =>
        \A k \in 1..Len(nz_cities[name].records) :
          citySlugOfRecord(nz_cities[name].records[k], cityFilePath(name))
            \o Str_json = name

\* a run has written a record whose city was inferred from the address, one
\* whose city was guessed from the file name and one with a city field
C27_Witness ==
  /\ nz_run.n >= 1
  /\ nz_cities[<<"g", "o", "a", ".", "j", "s", "o", "n">>].kind = "array"
  /\ nz_cities[<<"g", "o", "a", ".", "j", "s", "o", "n">>].records[1].city = NotAString
  /\ nz_cities[<<"a", "-", "b", ".", "j", "s", "o", "n">>].kind = "array"
  /\ nz_cities[<<"a", "-", "b", ".", "j", "s", "o", "n">>].records[1].city = NotAString
  /\ nz_cities[PuneJson].kind = "array"
  /\ Len(nz_cities[PuneJson].records) = 2

\* ------------------------------------------------------------------------
\* Properties of the search-indexing script
\* ------------------------------------------------------------------------
\* C17: over all runs no URL is published more than once, and no URL is
\* published that has a row in submitted_urls
C17_NeverResubmits ==
  /\ \A u \in SitemapUrls : ix_published[u] <= 1
  /\ ~ix_republished


\* C28: when a run has gone through its batch loop, every URL it selected
\* has a row in submitted_urls, with status 'submitted' exactly when a
\* publish call of the run for it succeeded and a status 'error: ...'
\* otherwise, and successCount + errorCount is the number of URLs selected.
C28_EveryUrlRecorded ==
  (ix_pc = "idle" /\ ix_runs >= 1) =>
    /\ \A u \in SeqRange(ix_urlsToSubmit) :
         /\ ix_db[u] \in {"submitted", "error"}
         /\ ix_db[u] = "submitted" <=> ix_accepted[u] > 0
    /\ ix_successCount + ix_errorCount = Len(ix_urlsToSubmit)

\* the same for the URLs the run selected once
C28_UniqueUrlsRecorded ==
  (ix_pc = "idle" /\ ix_runs >= 1) =>
    /\ \A u \in SeqRange(ix_urlsToSubmit) :
         Cardinality({k \in 1..Len(ix_urlsToSubmit) : ix_urlsToSubmit[k] = u}) = 1 =>
           /\ ix_db[u] \in {"submitted", "error"}
           /\ ix_db[u] = "submitted" <=> ix_accepted[u] > 0
    /\ ix_successCount + ix_errorCount = Len(ix_urlsToSubmit)

\* ------------------------------------------------------------------------
\* Properties of the cars migration
\* ------------------------------------------------------------------------
UploadsInFlight == Cardinality({ w \in DOMAIN cm_w : cm_w[w].st = "uploading" })

D1InFlight == IF cm_q = "none" THEN 0 ELSE 1

C19_EveryCarKept ==
  (cm_pc = "done" /\ cm_k = 0 /\ ~cm_failed /\ cm_i > 0) =>
    \A n \in 1..Len(cm_cars) :
      cm_cars[n].used_car_id # 0 =>
        \E r \in cm_used_cars : r.used_car_id = cm_cars[n].used_car_id


\* ------------------------------------------------------------------------
\* Properties of the slug functions
\* ------------------------------------------------------------------------
\* the last hyphen-separated segment of a slug
lastSegment(slug) ==
  LET segments == split(slug, "-")
  IN  segments[Len(segments)]

\* C22: the last hyphen-separated segment of generateCarSlug(car) is the
\* decimal id of the car, so two cars with different ids never get the same
\* slug, whatever their oem, model, year and city are.
C22_SlugEndsWithId ==
  sl_pc = "car" =>
    /\ \A k \in 1..2 : lastSegment(sl_carSlugs[k]) = toString(sl_cars[k].id)
    /\ sl_cars[1].id # sl_cars[2].id => sl_carSlugs[1] # sl_carSlugs[2]

\* the cars 1 of "Goa 1" and 11 of "Goa", otherwise alike
C22_Witness ==
  /\ sl_pc = "car"
  /\ sl_cars[1].city = <<"G", "o", "a", " ", "1">>
  /\ sl_cars[1].id = 1
  /\ sl_cars[2] = [sl_cars[1] EXCEPT !.city = <<"G", "o", "a">>, !.id = 11]
  /\ sl_carSlugs[1] # sl_carSlugs[2]

\* C23: slugify is a normal form: its result holds only a-z, 0-9 and '-',
\* neither starts nor ends with '-', has no two consecutive '-', and
\* slugify of the result is the result.
C23_SlugifyNormalForm ==
  sl_pc = "slug" =>
    /\ \A k \in 1..Len(sl_slug) :
         IsLower(sl_slug[k]) \/ IsDigit(sl_slug[k]) \/ sl_slug[k] = "-"
    /\ sl_slug # <<>> => sl_slug[1] # "-" /\ sl_slug[Len(sl_slug)] # "-"
    /\ \A k \in 1..(Len(sl_slug) - 1) : ~(sl_slug[k] = "-" /\ sl_slug[k + 1] = "-")
    /\ sl_again = sl_slug

\* an accented letter, an underscore and a capital
C23_Witness ==
  /\ sl_pc = "slug"
  /\ sl_input = <<"e_acute", "_", "B">>
  /\ sl_slug = <<"e", "-", "b">>
  /\ sl_again = sl_slug

\* ------------------------------------------------------------------------
\* Properties of the ContactForm component
\* ------------------------------------------------------------------------
\* C24: isSubmitting is true exactly while a submission is in flight; a
\* failure of the submission (error response, body that is not the expected
\* JSON, rejected fetch) leaves the step and the field values as they are
\* and sets an error message; and every submission ends with isSubmitting
\* back to false.
C24_SubmittingSettles ==
  /\ [](cf_isSubmitting <=> cf_pending.at # "none")
  /\ [][ cf_event'.kind = "failed" =>
           /\ cf_currentStep' = cf_currentStep
           /\ cf_formData' = cf_formData
           /\ cf_message'.type = "error"
           /\ cf_message'.text # ""
           /\ ~cf_isSubmitting'
       ]_vars
  /\ (cf_isSubmitting ~> ~cf_isSubmitting)

\* a submission answered with a body that is not JSON: the form is still on
\* step 2 with what was typed
C24_Witness ==
  /\ cf_event.kind = "failed"
  /\ cf_currentStep = 2
  /\ cf_message = [type |-> "error", text |-> "<SyntaxError>"]
  /\ ~cf_isSubmitting
  /\ cf_formData.name = "x"
  /\ cf_formData.phone_number = "x"
  /\ cf_formData.email = "x"

\* C25: currentStep is 1 or 2, and the form leaves step 2 for step 1 only
\* by the Back button or by the timer of a successful submission made in
\* the current visit to step 2; a timer of an earlier visit neither moves
\* the form to step 1 nor clears its message.
C25_NoStaleTimer ==
  /\ [](cf_currentStep \in {1, 2})
  /\ [][ /\ (cf_currentStep = 2 /\ cf_currentStep' = 1) =>
              \/ cf_event'.kind = "back"
              \/ cf_event'.kind = "timer" /\ cf_event'.visit = cf_visit
         /\ (cf_event'.kind = "timer" /\ cf_event'.visit # cf_visit) =>
              cf_message' = cf_message
       ]_vars

====
